---- MODULE Spec2Model ----
(***************************************************************************)
(* A model of the marmotedu-sdk-go REST client: the rest.Config helpers    *)
(* (String, LoadTLSFiles, TLSConfigFor, RESTClientFor, DefaultServerURL),  *)
(* the chained rest.Request builder, and the typed clients for users,      *)
(* secrets, policies and authz that are written on top of it.              *)
(*                                                                         *)
(* Go strings and []byte values are modelled as what they are: sequences   *)
(* of byte values.  S(<<"a","b">>) is the Go string "ab".                  *)
(***************************************************************************)
EXTENDS Integers, Sequences, FiniteSets, TLC

\* ------------------------------------------------------------------------
\* Bytes and strings
\* ------------------------------------------------------------------------

\* The printable ASCII characters, in code order starting at 32.
Printable ==
  << " ", "!", "\"", "#", "$", "%", "&", "(apostrophe)", "(", ")", "*", "+", ",", "-", ".", "/",
     "0", "1", "2", "3", "4", "5", "6", "7", "8", "9", ":", ";", "<", "=", ">", "?",
     "@", "A", "B", "C", "D", "E", "F", "G", "H", "I", "J", "K", "L", "M", "N", "O",
     "P", "Q", "R", "S", "T", "U", "V", "W", "X", "Y", "Z", "[", "\\", "]", "^", "_",
     "(grave)", "a", "b", "c", "d", "e", "f", "g", "h", "i", "j", "k", "l", "m", "n", "o",
     "p", "q", "r", "s", "t", "u", "v", "w", "x", "y", "z", "{", "|", "}", "~" >>

\* The byte value of a character ("\n" is the line feed).
Ord(c) ==
  IF c = "\n" THEN 10
  ELSE 31 + (CHOOSE i \in 1..Len(Printable) : Printable[i] = c)

\* The Go string spelled by a tuple of characters.
S(chars) == [i \in 1..Len(chars) |-> Ord(chars[i])]

Slash == Ord("/")
Colon == Ord(":")
Dot == Ord(".")
Percent == Ord("%")
Question == Ord("?")
Hash == Ord("#")
Equals == Ord("=")
LineFeed == Ord("\n")
UpperA == Ord("A")
UpperZ == Ord("Z")
LowerA == Ord("a")
LowerZ == Ord("z")
Digit0 == Ord("0")
Digit9 == Ord("9")
Plus == Ord("+")
Minus == Ord("-")
LBracket == Ord("[")
RBracket == Ord("]")
AtSign == Ord("@")
Star == Ord("*")
CarriageReturn == LineFeed + 3

IsLetter(b) == (b >= LowerA /\ b <= LowerZ) \/ (b >= UpperA /\ b <= UpperZ)
IsDigit(b) == b >= Digit0 /\ b <= Digit9

\* strings.Index: the first position of byte b in s, 0 when absent.
IndexByte(s, b) ==
  IF \E i \in 1..Len(s) : s[i] = b
  THEN CHOOSE i \in 1..Len(s) : s[i] = b /\ \A j \in 1..(i - 1) : s[j] # b
  ELSE 0

\* strings.LastIndex for one byte, 0 when absent.
LastIndexByte(s, b) ==
  IF \E i \in 1..Len(s) : s[i] = b
  THEN CHOOSE i \in 1..Len(s) : s[i] = b /\ \A j \in (i + 1)..Len(s) : s[j] # b
  ELSE 0

ContainsByte(s, b) == \E i \in 1..Len(s) : s[i] = b

HasPrefix(s, p) == Len(s) >= Len(p) /\ SubSeq(s, 1, Len(p)) = p

HasSuffix(s, p) == Len(s) >= Len(p) /\ SubSeq(s, Len(s) - Len(p) + 1, Len(s)) = p

\* s[i:] with a zero-based i.
From(s, i) == SubSeq(s, i + 1, Len(s))

\* strings.ToLower on ASCII.
ToLower(s) ==
  [i \in 1..Len(s) |->
     IF s[i] >= UpperA /\ s[i] <= UpperZ THEN s[i] + 32 ELSE s[i]]

\* strings.Join.
RECURSIVE JoinWith(_, _)
JoinWith(elems, sep) ==
  IF elems = <<>> THEN <<>>
  ELSE IF Len(elems) = 1 THEN elems[1]
  ELSE elems[1] \o sep \o JoinWith(Tail(elems), sep)

\* strings.Split(s, "/").
RECURSIVE SplitSlash(_)
SplitSlash(s) ==
  IF s = <<>> THEN << <<>> >>
  ELSE LET rest == SplitSlash(Tail(s)) IN
       IF Head(s) = Slash THEN << <<>> >> \o rest
       ELSE << <<Head(s)>> \o Head(rest) >> \o Tail(rest)

\* ------------------------------------------------------------------------
\* encoding/base64, StdEncoding
\* ------------------------------------------------------------------------

\* The character of a 6-bit value in the standard alphabet.
B64Char(v) ==
  IF v < 26 THEN UpperA + v
  ELSE IF v < 52 THEN LowerA + (v - 26)
  ELSE IF v < 62 THEN Digit0 + (v - 52)
  ELSE IF v = 62 THEN Plus
  ELSE Slash

\* The 6-bit value of a character, -1 when it is not in the alphabet.
B64Val(b) ==
  IF b >= UpperA /\ b <= UpperZ THEN b - UpperA
  ELSE IF b >= LowerA /\ b <= LowerZ THEN b - LowerA + 26
  ELSE IF IsDigit(b) THEN b - Digit0 + 52
  ELSE IF b = Plus THEN 62
  ELSE IF b = Slash THEN 63
  ELSE -1

\* base64.StdEncoding.EncodeToString.
RECURSIVE B64Encode(_)
B64Encode(src) ==
  IF src = <<>> THEN <<>>
  ELSE IF Len(src) = 1 THEN
    << B64Char(src[1] \div 4), B64Char((src[1] % 4) * 16), Equals, Equals >>
  ELSE IF Len(src) = 2 THEN
    << B64Char(src[1] \div 4),
       B64Char((src[1] % 4) * 16 + src[2] \div 16),
       B64Char((src[2] % 16) * 4), Equals >>
  ELSE
    << B64Char(src[1] \div 4),
       B64Char((src[1] % 4) * 16 + src[2] \div 16),
       B64Char((src[2] % 16) * 4 + src[3] \div 64),
       B64Char(src[3] % 64) >> \o B64Encode(SubSeq(src, 4, Len(src)))

\* The decoder skips carriage returns and line feeds wherever they stand.
B64Significant(s) == SelectSeq(s, LAMBDA b : b # LineFeed /\ b # CarriageReturn)

\* Decoding of the significant characters: quanta of four, padding only in
\* the last quantum and only in its last two places.  On corrupt input ok
\* is FALSE and data holds the bytes decoded before the error.
RECURSIVE B64DecodeQuanta(_)
B64DecodeQuanta(s) ==
  IF s = <<>> THEN [ok |-> TRUE, data |-> <<>>]
  ELSE IF Len(s) < 4 THEN [ok |-> FALSE, data |-> <<>>]
  ELSE
    LET v1 == B64Val(s[1])
        v2 == B64Val(s[2])
        v3 == B64Val(s[3])
        v4 == B64Val(s[4])
        b1 == v1 * 4 + v2 \div 16
        b2 == (v2 % 16) * 16 + v3 \div 4
        b3 == (v3 % 4) * 64 + v4
    IN IF v1 < 0 \/ v2 < 0 THEN [ok |-> FALSE, data |-> <<>>]
       ELSE IF s[3] = Equals THEN
         IF s[4] = Equals
         THEN [ok |-> Len(s) = 4, data |-> <<b1>>]
         ELSE [ok |-> FALSE, data |-> <<>>]
       ELSE IF v3 < 0 THEN [ok |-> FALSE, data |-> <<>>]
       ELSE IF s[4] = Equals THEN [ok |-> Len(s) = 4, data |-> <<b1, b2>>]
       ELSE IF v4 < 0 THEN [ok |-> FALSE, data |-> <<>>]
       ELSE LET rest == B64DecodeQuanta(SubSeq(s, 5, Len(s))) IN
            [ok |-> rest.ok, data |-> <<b1, b2, b3>> \o rest.data]

\* base64.StdEncoding.DecodeString: ok is FALSE for a CorruptInputError.
B64Decode(s) == B64DecodeQuanta(B64Significant(s))

\* ------------------------------------------------------------------------
\* package path
\* ------------------------------------------------------------------------

DotSeg == <<Dot>>
DotDotSeg == <<Dot, Dot>>

\* The element stack path.Clean keeps while it scans the path.
RECURSIVE CleanSegs(_, _, _)
CleanSegs(segs, rooted, acc) ==
  IF segs = <<>> THEN acc
  ELSE LET s == Head(segs) IN
    IF s = <<>> \/ s = DotSeg THEN CleanSegs(Tail(segs), rooted, acc)
    ELSE IF s = DotDotSeg THEN
      IF acc # <<>> /\ acc[Len(acc)] # DotDotSeg
      THEN CleanSegs(Tail(segs), rooted, SubSeq(acc, 1, Len(acc) - 1))
      ELSE IF rooted THEN CleanSegs(Tail(segs), rooted, acc)
      ELSE CleanSegs(Tail(segs), rooted, Append(acc, DotDotSeg))
    ELSE CleanSegs(Tail(segs), rooted, Append(acc, s))

\* path.Clean.
PathClean(p) ==
  IF p = <<>> THEN DotSeg
  ELSE LET rooted == p[1] = Slash
           segs == CleanSegs(SplitSlash(p), rooted, <<>>)
           body == JoinWith(segs, <<Slash>>)
       IN IF rooted THEN <<Slash>> \o body
          ELSE IF body = <<>> THEN DotSeg
          ELSE body

\* path.Join: the non-empty elements joined by slashes and cleaned; the
\* empty string when every element is empty.
PathJoin(elems) ==
  LET nonEmpty == SelectSeq(elems, LAMBDA e : e # <<>>) IN
  IF nonEmpty = <<>> THEN <<>> ELSE PathClean(JoinWith(nonEmpty, <<Slash>>))

\* ------------------------------------------------------------------------
\* net/url: Parse, for strings without a percent escape
\* ------------------------------------------------------------------------

NoErr == ""

EmptyURL ==
  [Scheme |-> <<>>, Opaque |-> <<>>, User |-> <<>>, Host |-> <<>>,
   Path |-> <<>>, RawQuery |-> <<>>, Fragment |-> <<>>]

\* getScheme: a scheme is letters, then letters, digits, '+', '-' and '.',
\* up to the first colon; a colon in the first place is an error.
RECURSIVE GetSchemeAt(_, _)
GetSchemeAt(raw, i) ==
  IF i > Len(raw) THEN [err |-> NoErr, scheme |-> <<>>, rest |-> raw]
  ELSE LET c == raw[i] IN
    IF IsLetter(c) THEN GetSchemeAt(raw, i + 1)
    ELSE IF IsDigit(c) \/ c = Plus \/ c = Minus \/ c = Dot THEN
      IF i = 1 THEN [err |-> NoErr, scheme |-> <<>>, rest |-> raw]
      ELSE GetSchemeAt(raw, i + 1)
    ELSE IF c = Colon THEN
      IF i = 1 THEN [err |-> "missing protocol scheme", scheme |-> <<>>, rest |-> <<>>]
      ELSE [err |-> NoErr, scheme |-> SubSeq(raw, 1, i - 1),
            rest |-> SubSeq(raw, i + 1, Len(raw))]
    ELSE [err |-> NoErr, scheme |-> <<>>, rest |-> raw]

\* validOptionalPort: empty, or a colon followed by digits only.
ValidOptionalPort(port) ==
  \/ port = <<>>
  \/ /\ port[1] = Colon
     /\ \A i \in 2..Len(port) : IsDigit(port[i])

\* The bytes a host may hold unescaped (shouldEscape in host mode).
HostPunctuation ==
  {Ord("!"), Ord("$"), Ord("&"), Ord("(apostrophe)"), Ord("("), Ord(")"),
   Ord("*"), Ord("+"), Ord(","), Ord(";"), Ord("="), Ord(":"), Ord("["),
   Ord("]"), Ord("<"), Ord(">"), Ord("\""), Ord("-"), Ord("_"), Ord("."),
   Ord("~")}

HostByteOK(b) == IsLetter(b) \/ IsDigit(b) \/ b >= 128 \/ b \in HostPunctuation

\* The optional port parseHost looks at: what follows the closing bracket
\* of an IP literal, or else what starts at the last colon.
HostPort(host) ==
  IF HasPrefix(host, <<LBracket>>)
  THEN SubSeq(host, LastIndexByte(host, RBracket) + 1, Len(host))
  ELSE IF LastIndexByte(host, Colon) # 0
  THEN SubSeq(host, LastIndexByte(host, Colon), Len(host))
  ELSE <<>>

\* parseHost.
ParseHost(host) ==
  IF HasPrefix(host, <<LBracket>>) /\ LastIndexByte(host, RBracket) = 0
  THEN [err |-> "missing ']' in host", host |-> <<>>]
  ELSE IF ~ValidOptionalPort(HostPort(host))
  THEN [err |-> "invalid port after host", host |-> <<>>]
  ELSE IF \E i \in 1..Len(host) : ~HostByteOK(host[i])
  THEN [err |-> "invalid character in host name", host |-> <<>>]
  ELSE [err |-> NoErr, host |-> host]

\* validUserinfo.
UserinfoPunctuation ==
  {Ord("-"), Ord("."), Ord("_"), Ord(":"), Ord("~"), Ord("!"), Ord("$"),
   Ord("&"), Ord("(apostrophe)"), Ord("("), Ord(")"), Ord("*"), Ord("+"),
   Ord(","), Ord(";"), Ord("="), Ord("%"), Ord("@")}

UserinfoByteOK(b) == IsLetter(b) \/ IsDigit(b) \/ b \in UserinfoPunctuation

\* parseAuthority once the host h is parsed: at is the place of the last
\* '@' (0 when there is none), userinfo what stands before it.
ParseAuthorityHost(h, at, userinfo) ==
  IF h.err # NoErr THEN [err |-> h.err, user |-> <<>>, host |-> <<>>]
  ELSE IF at = 0 THEN [err |-> NoErr, user |-> <<>>, host |-> h.host]
  ELSE IF \E i \in 1..Len(userinfo) : ~UserinfoByteOK(userinfo[i])
  THEN [err |-> "net/url: invalid userinfo", user |-> <<>>, host |-> <<>>]
  ELSE [err |-> NoErr, user |-> userinfo, host |-> h.host]

ParseAuthorityAt(authority, at) ==
  ParseAuthorityHost(ParseHost(SubSeq(authority, at + 1, Len(authority))), at,
                     SubSeq(authority, 1, at - 1))

\* parseAuthority: [userinfo@]host.
ParseAuthority(authority) == ParseAuthorityAt(authority, LastIndexByte(authority, AtSign))

UrlError(msg) == [err |-> msg, url |-> EmptyURL]

\* parse, once the authority is parsed: path is what follows it.
UrlParseWithAuthority(scheme, query, auth, path) ==
  IF auth.err # NoErr THEN UrlError(auth.err)
  ELSE [err |-> NoErr,
        url |-> [EmptyURL EXCEPT !.Scheme = scheme, !.User = auth.user,
                                 !.Host = auth.host, !.Path = path,
                                 !.RawQuery = query]]

\* parse at the authority: after is what follows "//", cut the place of
\* its first slash (0 when there is none).
UrlParseAuthority(scheme, query, after, cut) ==
  UrlParseWithAuthority(scheme, query,
                        ParseAuthority(IF cut = 0 THEN after ELSE SubSeq(after, 1, cut - 1)),
                        IF cut = 0 THEN <<>> ELSE SubSeq(after, cut, Len(after)))

\* A colon in the first path segment.
ColonBeforeSlash(rest) ==
  /\ IndexByte(rest, Colon) # 0
  /\ (IndexByte(rest, Slash) = 0 \/ IndexByte(rest, Colon) < IndexByte(rest, Slash))

\* parse (viaRequest = false), once the scheme and the query are cut off.
UrlParseRest(scheme, rest, query) ==
  IF ~HasPrefix(rest, <<Slash>>) /\ scheme # <<>>
  THEN [err |-> NoErr,
        url |-> [EmptyURL EXCEPT !.Scheme = scheme, !.Opaque = rest, !.RawQuery = query]]
  ELSE IF ~HasPrefix(rest, <<Slash>>) /\ ColonBeforeSlash(rest)
  THEN UrlError("first path segment in URL cannot contain colon")
  ELSE IF /\ HasPrefix(rest, <<Slash, Slash>>)
          /\ (scheme # <<>> \/ ~HasPrefix(rest, <<Slash, Slash, Slash>>))
  THEN UrlParseAuthority(scheme, query, From(rest, 2), IndexByte(From(rest, 2), Slash))
  ELSE [err |-> NoErr,
        url |-> [EmptyURL EXCEPT !.Scheme = scheme, !.Path = rest, !.RawQuery = query]]

\* parse, once getScheme returned: q is the place of the first '?' of the
\* rest (0 when there is none); the scheme is lower-cased.
UrlParseQuery(scheme, rest, q) ==
  UrlParseRest(ToLower(scheme),
               IF q = 0 THEN rest ELSE SubSeq(rest, 1, q - 1),
               IF q = 0 THEN <<>> ELSE SubSeq(rest, q + 1, Len(rest)))

UrlParseScheme(sch) ==
  IF sch.err # NoErr THEN UrlError(sch.err)
  ELSE UrlParseQuery(sch.scheme, sch.rest, IndexByte(sch.rest, Question))

\* The part of url.Parse after the fragment is cut off.
UrlParseNoFragment(rawURL) ==
  IF \E i \in 1..Len(rawURL) : rawURL[i] < 32 \/ rawURL[i] = 127
  THEN UrlError("net/url: invalid control character in URL")
  ELSE IF rawURL = <<Star>>
  THEN [err |-> NoErr, url |-> [EmptyURL EXCEPT !.Path = rawURL]]
  ELSE UrlParseScheme(GetSchemeAt(rawURL, 1))

UrlWithFragment(r, frag) ==
  IF r.err # NoErr THEN r ELSE [err |-> NoErr, url |-> [r.url EXCEPT !.Fragment = frag]]

\* url.Parse at the fragment: h is the place of the first '#'.
UrlParseFragment(rawURL, h) ==
  UrlWithFragment(UrlParseNoFragment(IF h = 0 THEN rawURL ELSE SubSeq(rawURL, 1, h - 1)),
                  IF h = 0 THEN <<>> ELSE SubSeq(rawURL, h + 1, Len(rawURL)))

\* url.Parse.
UrlParse(rawURL) == UrlParseFragment(rawURL, IndexByte(rawURL, Hash))

\* ------------------------------------------------------------------------
\* rest.Config and its helpers
\* ------------------------------------------------------------------------

\* A *scheme.GroupVersion that is nil.
NilGroupVersion == [set |-> FALSE, Group |-> <<>>, Version |-> <<>>]

GroupVersionOf(group, version) == [set |-> TRUE, Group |-> group, Version |-> version]

\* The zero Config.
ZeroConfig ==
  [Host |-> <<>>, APIPath |-> <<>>,
   ServiceName |-> <<>>, AcceptContentTypes |-> <<>>, ContentType |-> <<>>,
   GroupVersion |-> NilGroupVersion, Negotiator |-> "nil",
   Username |-> <<>>, Password |-> <<>>, SecretID |-> <<>>, SecretKey |-> <<>>,
   BearerToken |-> <<>>, BearerTokenFile |-> <<>>,
   Insecure |-> FALSE, ServerName |-> <<>>,
   CertFile |-> <<>>, KeyFile |-> <<>>, CAFile |-> <<>>,
   CertData |-> <<>>, KeyData |-> <<>>, CAData |-> <<>>, NextProtos |-> <<>>,
   UserAgent |-> <<>>, Timeout |-> 0, MaxRetries |-> 0, RetryInterval |-> 0]

\* CopyConfig: a new Config with the listed fields of the given one;
\* MaxRetries and RetryInterval are not in the list and stay zero.
CopyConfig(config) ==
  [ZeroConfig EXCEPT
     !.Host = config.Host, !.APIPath = config.APIPath,
     !.ServiceName = config.ServiceName,
     !.AcceptContentTypes = config.AcceptContentTypes,
     !.ContentType = config.ContentType,
     !.GroupVersion = config.GroupVersion, !.Negotiator = config.Negotiator,
     !.Username = config.Username, !.Password = config.Password,
     !.SecretID = config.SecretID, !.SecretKey = config.SecretKey,
     !.BearerToken = config.BearerToken, !.BearerTokenFile = config.BearerTokenFile,
     !.Insecure = config.Insecure, !.ServerName = config.ServerName,
     !.CertFile = config.CertFile, !.KeyFile = config.KeyFile,
     !.CAFile = config.CAFile, !.CertData = config.CertData,
     !.KeyData = config.KeyData, !.CAData = config.CAData,
     !.NextProtos = config.NextProtos,
     !.UserAgent = config.UserAgent, !.Timeout = config.Timeout]

Redacted == S(<<"-", "-", "-", " ", "R", "E", "D", "A", "C", "T", "E", "D", " ", "-", "-", "-">>)
Truncated == S(<<"-", "-", "-", " ", "T", "R", "U", "N", "C", "A", "T", "E", "D", " ", "-", "-", "-">>)

\* TLSClientConfig.String: the fields "%#v" prints of the sanitized copy.
TLSClientConfigString(c) ==
  [Insecure |-> c.Insecure, ServerName |-> c.ServerName,
   CertFile |-> c.CertFile, KeyFile |-> c.KeyFile, CAFile |-> c.CAFile,
   CertData |-> IF Len(c.CertData) # 0 THEN Truncated ELSE c.CertData,
   KeyData |-> IF Len(c.KeyData) # 0 THEN Redacted ELSE c.KeyData,
   CAData |-> c.CAData, NextProtos |-> c.NextProtos]

\* The redactions without that of the SecretKey.
SanitizeNoSecretKey(cc) ==
  [cc EXCEPT !.Password = IF @ # <<>> THEN Redacted ELSE @,
             !.BearerToken = IF @ # <<>> THEN Redacted ELSE @]

\* The redactions Config.String makes on its copy.
Sanitize(cc) ==
  [cc EXCEPT !.Password = IF @ # <<>> THEN Redacted ELSE @,
             !.BearerToken = IF @ # <<>> THEN Redacted ELSE @,
             !.SecretKey = IF @ # <<>> THEN Redacted ELSE @]

\* What "%#v" prints of the sanitized copy; the embedded TLSClientConfig
\* prints through its own GoString.
SanitizedString(cc) ==
  [Host |-> cc.Host, APIPath |-> cc.APIPath,
   ContentConfig |->
     [ServiceName |-> cc.ServiceName,
      AcceptContentTypes |-> cc.AcceptContentTypes,
      ContentType |-> cc.ContentType,
      GroupVersion |-> cc.GroupVersion, Negotiator |-> cc.Negotiator],
   Username |-> cc.Username, Password |-> cc.Password,
   SecretID |-> cc.SecretID, SecretKey |-> cc.SecretKey,
   BearerToken |-> cc.BearerToken, BearerTokenFile |-> cc.BearerTokenFile,
   TLSClientConfig |-> TLSClientConfigString(cc),
   UserAgent |-> cc.UserAgent, Timeout |-> cc.Timeout,
   MaxRetries |-> cc.MaxRetries, RetryInterval |-> cc.RetryInterval]

\* Config.String on a non-nil receiver: out is the string, c the receiver
\* after the call.
ConfigString(c) == [out |-> SanitizedString(Sanitize(CopyConfig(c))), c |-> c]

\* Config.GoString.
ConfigGoString(c) == ConfigString(c)

\* TLSClientConfig.HasCA.
HasCA(c) == Len(c.CAData) > 0 \/ Len(c.CAFile) > 0

\* TLSClientConfig.HasCertAuth.
HasCertAuth(c) ==
  /\ (Len(c.CertData) # 0 \/ Len(c.CertFile) # 0)
  /\ (Len(c.KeyData) # 0 \/ Len(c.KeyFile) # 0)

\* The files the process can read: a path outside the domain does not exist.
PemCert == S(<<"C", "E", "R", "T">>)
PemKey == S(<<"K", "E", "Y">>)
PemCA == S(<<"C", "A">>)
CertPath == S(<<"c", "e", "r", "t", ".", "p", "e", "m">>)
KeyPath == S(<<"k", "e", "y", ".", "p", "e", "m">>)
CAPath == S(<<"c", "a", ".", "p", "e", "m">>)
EmptyPath == S(<<"e", "m", "p", "t", "y">>)
MissingPath == S(<<"m", "i", "s", "s", "i", "n", "g">>)

FileSystem ==
  (CertPath :> PemCert) @@ (KeyPath :> PemKey) @@ (CAPath :> PemCA)
    @@ (EmptyPath :> <<>>)

\* ioutil.ReadFile.
ReadFile(file) ==
  IF file \in DOMAIN FileSystem
  THEN [err |-> NoErr, data |-> FileSystem[file]]
  ELSE [err |-> "open: no such file or directory", data |-> <<>>]

\* dataFromSliceOrFile for a non-empty slice: d is the decoding of it.
DecodedSlice(d) ==
  [err |-> IF d.ok THEN NoErr ELSE "illegal base64 data", data |-> d.data, read |-> FALSE]

\* dataFromSliceOrFile for an empty slice and a file name: f is what
\* ReadFile returned.
FileData(f) == [err |-> f.err, data |-> f.data, read |-> TRUE]

\* dataFromSliceOrFile; read tells whether the file was opened.
dataFromSliceOrFile(data, file) ==
  IF Len(data) > 0 THEN DecodedSlice(B64Decode(data))
  ELSE IF Len(file) > 0 THEN FileData(ReadFile(file))
  ELSE [err |-> NoErr, data |-> <<>>, read |-> FALSE]

\* LoadTLSFiles from its third assignment on.
LoadTLSFilesKey(c, ca, cert, key) ==
  [err |-> key.err, c |-> [c EXCEPT !.KeyData = key.data],
   read |-> [CA |-> ca.read, Cert |-> cert.read, Key |-> key.read]]

\* LoadTLSFiles from its second assignment on.
LoadTLSFilesCert(c, ca, cert) ==
  IF cert.err # NoErr
  THEN [err |-> cert.err, c |-> [c EXCEPT !.CertData = cert.data],
        read |-> [CA |-> ca.read, Cert |-> cert.read, Key |-> FALSE]]
  ELSE LoadTLSFilesKey([c EXCEPT !.CertData = cert.data], ca, cert,
                       dataFromSliceOrFile(c.KeyData, c.KeyFile))

\* LoadTLSFiles from its first assignment on.  Each field is assigned
\* before its error is looked at.
LoadTLSFilesCA(c, ca) ==
  IF ca.err # NoErr
  THEN [err |-> ca.err, c |-> [c EXCEPT !.CAData = ca.data],
        read |-> [CA |-> ca.read, Cert |-> FALSE, Key |-> FALSE]]
  ELSE LoadTLSFilesCert([c EXCEPT !.CAData = ca.data], ca,
                        dataFromSliceOrFile(c.CertData, c.CertFile))

\* LoadTLSFiles: c is the Config after the call, read tells which of the
\* three files the call opened.
LoadTLSFiles(c) == LoadTLSFilesCA(c, dataFromSliceOrFile(c.CAData, c.CAFile))

\* tls.X509KeyPair accepts the test pair and nothing else.
X509KeyPairOK(certData, keyData) == certData = PemCert /\ keyData = PemKey

NilTLS ==
  [set |-> FALSE, InsecureSkipVerify |-> FALSE, ServerName |-> <<>>,
   RootCAs |-> <<>>, ClientCert |-> FALSE]

\* TLSConfigFor from the call of LoadTLSFiles on.
TLSConfigForLoaded(loaded) ==
  IF loaded.err # NoErr THEN [err |-> loaded.err, tls |-> NilTLS, c |-> loaded.c]
  ELSE IF HasCertAuth(loaded.c) /\ ~X509KeyPairOK(loaded.c.CertData, loaded.c.KeyData)
  THEN [err |-> "tls: failed to find any PEM data", tls |-> NilTLS, c |-> loaded.c]
  ELSE [err |-> NoErr,
        tls |-> [set |-> TRUE, InsecureSkipVerify |-> loaded.c.Insecure,
                 ServerName |-> loaded.c.ServerName,
                 RootCAs |-> IF HasCA(loaded.c) THEN loaded.c.CAData ELSE <<>>,
                 ClientCert |-> HasCertAuth(loaded.c)],
        c |-> loaded.c]

\* TLSConfigFor without the check of a CA against the insecure flag.
TLSConfigForNoInsecureCheck(c) ==
  IF ~(HasCA(c) \/ HasCertAuth(c) \/ c.Insecure \/ Len(c.ServerName) > 0)
  THEN [err |-> NoErr, tls |-> NilTLS, c |-> c]
  ELSE TLSConfigForLoaded(LoadTLSFiles(c))

\* TLSConfigFor: tls is the *tls.Config (set = FALSE for nil), c the Config
\* after the call.
TLSConfigFor(c) ==
  IF ~(HasCA(c) \/ HasCertAuth(c) \/ c.Insecure \/ Len(c.ServerName) > 0)
  THEN [err |-> NoErr, tls |-> NilTLS, c |-> c]
  ELSE IF HasCA(c) /\ c.Insecure
  THEN [err |-> "specifying a root certificates file with the insecure flag is not allowed",
        tls |-> NilTLS, c |-> c]
  ELSE TLSConfigForLoaded(LoadTLSFiles(c))

\* ------------------------------------------------------------------------
\* Server URL and RESTClient construction
\* ------------------------------------------------------------------------

HttpPrefix == S(<<"h", "t", "t", "p", ":", "/", "/">>)
HttpsPrefix == S(<<"h", "t", "t", "p", "s", ":", "/", "/">>)
DefaultDomainPort == S(<<".", "m", "a", "r", "m", "o", "t", "e", "d", "u", ".", "c", "o", "m", ":", "8", "0", "8", "0">>)
DefaultDomainTLSPort == S(<<".", "m", "a", "r", "m", "o", "t", "e", "d", "u", ".", "c", "o", "m", ":", "8", "4", "4", "3">>)

NoServerURL(msg) == [err |-> msg, url |-> EmptyURL, versionedAPIPath |-> <<>>]

\* DefaultServerURL where the group's default address is used: fallback is
\* the parse of it.
DefaultServerURLFallback(fallback, versionedAPIPath) ==
  IF fallback.err # NoErr THEN NoServerURL(fallback.err)
  ELSE IF fallback.url.Path # <<>> /\ fallback.url.Path # <<Slash>>
  THEN NoServerURL("host must be a URL or a host:port pair")
  ELSE [err |-> NoErr, url |-> fallback.url, versionedAPIPath |-> versionedAPIPath]

\* DefaultServerURL once the host is parsed.
DefaultServerURLParsed(hostURL, group, defaultTLS, versionedAPIPath) ==
  IF hostURL.err # NoErr \/ hostURL.url.Scheme = <<>> \/ hostURL.url.Host = <<>>
  THEN DefaultServerURLFallback(
         UrlParse(IF defaultTLS THEN HttpsPrefix \o group \o DefaultDomainTLSPort
                  ELSE HttpPrefix \o group \o DefaultDomainPort),
         versionedAPIPath)
  ELSE [err |-> NoErr, url |-> hostURL.url, versionedAPIPath |-> versionedAPIPath]

\* DefaultServerURL: url is the base URL, versionedAPIPath the API root.
DefaultServerURL(host, apiPath, groupVersion, defaultTLS) ==
  DefaultServerURLParsed(UrlParse(host), groupVersion.Group, defaultTLS,
                         PathJoin(<< <<Slash>>, apiPath, groupVersion.Version >>))

\* defaultServerURLFor.
defaultServerURLFor(config) ==
  DefaultServerURL(config.Host, config.APIPath, config.GroupVersion,
                   \/ Len(config.CAFile) # 0 \/ Len(config.CAData) # 0
                   \/ Len(config.CertFile) # 0 \/ Len(config.CertData) # 0
                   \/ config.Insecure)

ApplicationJSON == S(<<"a", "p", "p", "l", "i", "c", "a", "t", "i", "o", "n", "/", "j", "s", "o", "n">>)

NilClient ==
  [set |-> FALSE, base |-> EmptyURL, group |-> <<>>, versionedAPIPath |-> <<>>,
   content |-> ZeroConfig,
   Client |-> [tls |-> NilTLS, Timeout |-> 0, RetryerCount |-> 0, RetryerTime |-> 0,
               RetryableStatus |-> {}, DoNotClearSuperAgent |-> FALSE]]

\* NewRESTClient: config is the ClientContentConfig (the credential, TLS
\* and content fields of a Config), client the HTTP agent.
NewRESTClient(baseURL, versionedAPIPath, config, client) ==
  [set |-> TRUE,
   base |-> [baseURL EXCEPT !.Path = IF ~HasSuffix(@, <<Slash>>) THEN @ \o <<Slash>> ELSE @,
                            !.RawQuery = <<>>, !.Fragment = <<>>],
   group |-> config.GroupVersion.Group,
   versionedAPIPath |-> versionedAPIPath,
   content |-> [config EXCEPT !.ContentType = IF Len(@) = 0 THEN ApplicationJSON ELSE @],
   Client |-> client]

StatusOK == 200
StatusInternalServerError == 500

\* Retry statuses that take in 503 Service Unavailable.
RetryStatusesWith503(config) == {StatusInternalServerError, 503}

\* The status codes RESTClientFor hands to the agent's Retry.
RetryStatuses(config) == {StatusInternalServerError}

\* The agent RESTClientFor makes:
\* gorequest.New().TLSClientConfig(tlsConfig).Timeout(config.Timeout).
\* Retry(config.MaxRetries, config.RetryInterval, 500), DoNotClearSuperAgent.
NewAgent(config, tlsConfig) ==
  [tls |-> tlsConfig, Timeout |-> config.Timeout,
   RetryerCount |-> config.MaxRetries, RetryerTime |-> config.RetryInterval,
   RetryableStatus |-> RetryStatuses(config),
   DoNotClearSuperAgent |-> TRUE]

\* The ClientContentConfig RESTClientFor fills from the Config.
ClientContentOf(config) ==
  [ZeroConfig EXCEPT
     !.Username = config.Username, !.Password = config.Password,
     !.SecretID = config.SecretID, !.SecretKey = config.SecretKey,
     !.BearerToken = config.BearerToken,
     !.BearerTokenFile = config.BearerTokenFile,
     !.Insecure = config.Insecure, !.ServerName = config.ServerName,
     !.CertFile = config.CertFile, !.KeyFile = config.KeyFile,
     !.CAFile = config.CAFile, !.CertData = config.CertData,
     !.KeyData = config.KeyData, !.CAData = config.CAData,
     !.NextProtos = config.NextProtos,
     !.AcceptContentTypes = config.AcceptContentTypes,
     !.ContentType = config.ContentType,
     !.GroupVersion = config.GroupVersion,
     !.Negotiator = config.Negotiator]

\* RESTClientFor from the call of TLSConfigFor on.
RESTClientForTLS(server, tlsFor) ==
  IF tlsFor.err # NoErr THEN [err |-> tlsFor.err, client |-> NilClient, c |-> tlsFor.c]
  ELSE [err |-> NoErr,
        client |-> NewRESTClient(server.url, server.versionedAPIPath,
                                 ClientContentOf(tlsFor.c),
                                 NewAgent(tlsFor.c, tlsFor.tls)),
        c |-> tlsFor.c]

\* RESTClientFor from the call of defaultServerURLFor on.
RESTClientForServer(config, server) ==
  IF server.err # NoErr THEN [err |-> server.err, client |-> NilClient, c |-> config]
  ELSE RESTClientForTLS(server, TLSConfigFor(config))

\* RESTClientFor: client.set is FALSE when no client is returned; c is the
\* Config after the call (TLSConfigFor loads the TLS files into it).
RESTClientFor(config) ==
  IF ~config.GroupVersion.set
  THEN [err |-> "GroupVersion is required when initializing a RESTClient",
        client |-> NilClient, c |-> config]
  ELSE IF config.Negotiator = "nil"
  THEN [err |-> "NegotiatedSerializer is required when initializing a RESTClient",
        client |-> NilClient, c |-> config]
  ELSE RESTClientForServer(config, defaultServerURLFor(config))

GroupIamAPI == S(<<"i", "a", "m", ".", "a", "p", "i">>)
GroupIamAuthz == S(<<"i", "a", "m", ".", "a", "u", "t", "h", "z">>)
VersionV1 == S(<<"v", "1">>)
DefaultUserAgent == S(<<"s", "d", "k", "/", "u", "n", "k", "n", "o", "w", "n">>)

\* setConfigDefaults of a group's typed client.
setConfigDefaults(config, group) ==
  [config EXCEPT !.GroupVersion = GroupVersionOf(group, VersionV1),
                 !.APIPath = <<>>,
                 !.Negotiator = "simple",
                 !.UserAgent = IF config.UserAgent = <<>> THEN DefaultUserAgent
                               ELSE config.UserAgent]

\* apiserver/v1 NewForConfig: works on a copy of the caller's Config.
APIV1NewForConfig(c) == RESTClientFor(setConfigDefaults(c, GroupIamAPI))

\* authz/v1 NewForConfig.
AuthzV1NewForConfig(c) == RESTClientFor(setConfigDefaults(c, GroupIamAuthz))

\* ------------------------------------------------------------------------
\* rest.Request
\* ------------------------------------------------------------------------

\* An error value: the format string and its arguments; NilError is nil.
Errorf(msg, args) == [msg |-> msg, args |-> args]
NilError == Errorf("", <<>>)

ErrOnlyOneAuth ==
  Errorf("username/password or bearer token or secretID/secretKey may be set, but should use only one of them", <<>>)

\* ClientContentConfig.HasBasicAuth.
HasBasicAuth(c) == Len(c.Username) # 0

\* HasTokenAuth that looks at the BearerToken alone.
HasTokenAuthNoFile(c) == Len(c.BearerToken) # 0

\* ClientContentConfig.HasTokenAuth.
HasTokenAuth(c) == Len(c.BearerToken) # 0 \/ Len(c.BearerTokenFile) # 0

\* ClientContentConfig.HasKeyAuth.
HasKeyAuth(c) == Len(c.SecretID) # 0 /\ Len(c.SecretKey) # 0

\* An http.Header or url.Values without keys.
NoValues == [k \in {} |-> <<>>]

\* Header.Del followed by Header.Add of each value.
HeaderSet(h, key, values) ==
  IF values = <<>>
  THEN [k \in DOMAIN h \ {key} |-> h[k]]
  ELSE [k \in DOMAIN h \cup {key} |-> IF k = key THEN values ELSE h[k]]

\* Request.SetHeader.
SetHeader(r, key, values) == [r EXCEPT !.headers = HeaderSet(r.headers, key, values)]

\* basicAuth.
basicAuth(username, password) == B64Encode(username \o <<Colon>> \o password)

BearerSpace == S(<<"B", "e", "a", "r", "e", "r", " ">>)
BasicSpace == S(<<"B", "a", "s", "i", "c", " ">>)
SDKIssuer == S(<<"m", "a", "r", "m", "o", "t", "e", "d", "u", "-", "s", "d", "k", "-", "g", "o">>)
DotMarmoteduCom == S(<<".", "m", "a", "r", "m", "o", "t", "e", "d", "u", ".", "c", "o", "m">>)
AcceptAny == S(<<",", " ", "*", "/", "*">>)

SigOpen == S(<<"s", "i", "g", "(">>)
SigClose == S(<<")">>)

\* auth.Sign of component-base: a token that names the key id, the issuer
\* and the audience and carries a signature made with the secret key.  The
\* signature is kept symbolic: the key between "sig(" and ")".
AuthSign(secretID, secretKey, iss, aud) ==
  secretID \o <<Dot>> \o iss \o <<Dot>> \o aud \o <<Dot>>
    \o SigOpen \o secretKey \o SigClose

\* The Request NewRequest starts from.
ZeroRequest ==
  [c |-> NilClient, timeout |-> 0, verb |-> <<>>, pathPrefix |-> <<>>, subpath |-> <<>>,
   params |-> NoValues, headers |-> NoValues,
   resource |-> <<>>, resourceName |-> <<>>, subresource |-> <<>>,
   err |-> NilError, body |-> [kind |-> "nil", value |-> <<>>]]

\* The number of authentication methods NewRequest counts.
AuthMethods(content) ==
  (IF HasBasicAuth(content) THEN 1 ELSE 0)
  + (IF HasTokenAuth(content) THEN 1 ELSE 0)
  + (IF HasKeyAuth(content) THEN 1 ELSE 0)

\* The switch of NewRequest that sets the Authorization header.
SetAuthorization(r) ==
  IF HasTokenAuth(r.c.content)
  THEN SetHeader(r, "Authorization", << BearerSpace \o r.c.content.BearerToken >>)
  ELSE IF HasKeyAuth(r.c.content)
  THEN SetHeader(r, "Authorization",
                 << BearerSpace \o AuthSign(r.c.content.SecretID, r.c.content.SecretKey,
                                            SDKIssuer, r.c.group \o DotMarmoteduCom) >>)
  ELSE IF HasBasicAuth(r.c.content)
  THEN SetHeader(r, "Authorization",
                 << BasicSpace \o basicAuth(r.c.content.Username, r.c.content.Password) >>)
  ELSE r

\* The switch of NewRequest that sets the Accept header.
SetAccept(r) ==
  IF Len(r.c.content.AcceptContentTypes) > 0
  THEN SetHeader(r, "Accept", << r.c.content.AcceptContentTypes >>)
  ELSE IF Len(r.c.content.ContentType) > 0
  THEN SetHeader(r, "Accept", << r.c.content.ContentType \o AcceptAny >>)
  ELSE r

\* The Request literal of NewRequest (c.base is never nil for a client
\* made by NewRESTClient).
NewRequestLiteral(c) ==
  [ZeroRequest EXCEPT
     !.c = c,
     !.pathPrefix = PathJoin(<< <<Slash>>, c.base.Path, c.versionedAPIPath >>)]

\* NewRequest that lets two authentication methods pass.
NewRequestTwoMethods(c) ==
  IF AuthMethods(c.content) > 2
  THEN [NewRequestLiteral(c) EXCEPT !.err = ErrOnlyOneAuth]
  ELSE SetAccept(SetAuthorization(NewRequestLiteral(c)))

\* NewRequest.
NewRequest(c) ==
  IF AuthMethods(c.content) > 1
  THEN [NewRequestLiteral(c) EXCEPT !.err = ErrOnlyOneAuth]
  ELSE SetAccept(SetAuthorization(NewRequestLiteral(c)))

\* Request.Verb.
Verb(r, verb) == [r EXCEPT !.verb = verb]

VerbGET == S(<<"G", "E", "T">>)
VerbPOST == S(<<"P", "O", "S", "T">>)
VerbPUT == S(<<"P", "U", "T">>)
VerbDELETE == S(<<"D", "E", "L", "E", "T", "E">>)

\* RESTClient.Verb, Post, Put, Get and Delete.
RESTClientVerb(c, verb) == Verb(NewRequest(c), verb)
RESTClientPost(c) == RESTClientVerb(c, VerbPOST)
RESTClientPut(c) == RESTClientVerb(c, VerbPUT)
RESTClientGet(c) == RESTClientVerb(c, VerbGET)
RESTClientDelete(c) == RESTClientVerb(c, VerbDELETE)

\* IsValidPathSegmentName: the messages, none for a valid name.
IsValidPathSegmentName(name) ==
  IF name = DotSeg THEN << "may not be '.'" >>
  ELSE IF name = DotDotSeg THEN << "may not be '..'" >>
  ELSE (IF ContainsByte(name, Slash) THEN << "may not contain '/'" >> ELSE <<>>)
       \o (IF ContainsByte(name, Percent) THEN << "may not contain '%'" >> ELSE <<>>)

\* Request.Prefix.
Prefix(r, segments) ==
  IF r.err # NilError THEN r
  ELSE [r EXCEPT !.pathPrefix = PathJoin(<< r.pathPrefix, PathJoin(segments) >>)]

\* Request.Suffix.
Suffix(r, segments) ==
  IF r.err # NilError THEN r
  ELSE [r EXCEPT !.subpath = PathJoin(<< r.subpath, PathJoin(segments) >>)]

\* Request.Resource.
Resource(r, resource) ==
  IF r.err # NilError THEN r
  ELSE IF Len(r.resource) # 0
  THEN [r EXCEPT !.err = Errorf("resource already set to %q, cannot change to %q",
                                << r.resource, resource >>)]
  ELSE IF Len(IsValidPathSegmentName(resource)) # 0
  THEN [r EXCEPT !.err = Errorf("invalid resource %q: %v", << resource >>)]
  ELSE [r EXCEPT !.resource = resource]

\* The first element of subresources that is no valid path segment name,
\* 0 when there is none.
FirstInvalid(subresources) ==
  IF \E i \in 1..Len(subresources) : Len(IsValidPathSegmentName(subresources[i])) # 0
  THEN CHOOSE i \in 1..Len(subresources) :
         /\ Len(IsValidPathSegmentName(subresources[i])) # 0
         /\ \A j \in 1..(i - 1) : Len(IsValidPathSegmentName(subresources[j])) = 0
  ELSE 0

\* Request.SubResource.
SubResource(r, subresources) ==
  IF r.err # NilError THEN r
  ELSE IF Len(r.subresource) # 0
  THEN [r EXCEPT !.err = Errorf("subresource already set to %q, cannot change to %q",
                                << r.resource, PathJoin(subresources) >>)]
  ELSE IF FirstInvalid(subresources) # 0
  THEN [r EXCEPT !.err = Errorf("invalid subresource %q: %v",
                                << subresources[FirstInvalid(subresources)] >>)]
  ELSE [r EXCEPT !.subresource = PathJoin(subresources)]

\* Request.Name.
Name(r, resourceName) ==
  IF r.err # NilError THEN r
  ELSE IF Len(resourceName) = 0
  THEN [r EXCEPT !.err = Errorf("resource name may not be empty", <<>>)]
  ELSE IF Len(r.resourceName) # 0
  THEN [r EXCEPT !.err = Errorf("resource name already set to %q, cannot change to %q",
                                << r.resourceName, resourceName >>)]
  ELSE IF Len(IsValidPathSegmentName(resourceName)) # 0
  THEN [r EXCEPT !.err = Errorf("invalid resource name %q: %v", << resourceName >>)]
  ELSE [r EXCEPT !.resourceName = resourceName]

\* Request.VersionedParams: hands the options to the agent's Query and
\* leaves the Request as it is.
VersionedParams(r, v) == r

\* Request.Timeout.
Timeout(r, d) == IF r.err # NilError THEN r ELSE [r EXCEPT !.timeout = d]

\* Request.Body: obj.kind is the reflect.Kind of the value handed in.
Body(r, obj) ==
  IF obj.kind = "struct"
  THEN [SetHeader(r, "Content-Type", << r.c.content.ContentType >>) EXCEPT !.body = obj]
  ELSE [r EXCEPT !.body = obj]

\* time.Duration.String for whole seconds below a minute.
RECURSIVE Itoa(_)
Itoa(n) ==
  IF n < 10 THEN <<Digit0 + n>> ELSE Itoa(n \div 10) \o <<Digit0 + (n % 10)>>

SecondsUnit == S(<<"s">>)

DurationString(d) == Itoa(d) \o SecondsUnit

TimeoutKey == S(<<"t", "i", "m", "e", "o", "u", "t">>)

\* A path that puts the resource name after the subresource.
URLPathNameLast(r) ==
  PathJoin(<< r.pathPrefix, ToLower(r.resource), r.subresource, r.resourceName, r.subpath >>)

\* The path Request.URL puts together.
URLPath(r) ==
  IF Len(r.resourceName) # 0 \/ Len(r.subpath) # 0 \/ Len(r.subresource) # 0
  THEN PathJoin(<< IF Len(r.resource) # 0
                   THEN PathJoin(<< r.pathPrefix, ToLower(r.resource) >>)
                   ELSE r.pathPrefix,
                   r.resourceName, r.subresource, r.subpath >>)
  ELSE IF Len(r.resource) # 0
  THEN PathJoin(<< r.pathPrefix, ToLower(r.resource) >>)
  ELSE r.pathPrefix

\* Request.URL: the URL the request goes to; Query holds the url.Values
\* that Encode writes into RawQuery.
URL(r) ==
  [Scheme |-> r.c.base.Scheme, Host |-> r.c.base.Host, Path |-> URLPath(r),
   Query |-> IF r.timeout # 0
             THEN HeaderSet(r.params, TimeoutKey, << DurationString(r.timeout) >>)
             ELSE r.params]

\* What Request.Do hands to the agent: CustomMethod(verb, URL).Send(body)
\* with the agent's Header set to the request's headers.
HTTPRequest(r) ==
  [Method |-> r.verb, URL |-> URL(r), Header |-> r.headers, Body |-> r.body]

\* The agent's EndBytes loop: after a response it sends the request again
\* while the status is one of the Retry statuses and fewer than the Retry
\* count of retries were made.
AgentRetries(agent, attempt, status) ==
  attempt < agent.RetryerCount /\ status \in agent.RetryableStatus

\* combineErr: resp.kind is "error" when the agent reports errors.
combineErr(resp) ==
  IF resp.kind = "error" THEN Errorf("%s", << resp.body >>)
  ELSE IF resp.status # StatusOK THEN Errorf("%s", << resp.body >>)
  ELSE NilError

NilResult == [set |-> FALSE, err |-> NilError, body |-> <<>>, status |-> 0, decoder |-> "nil"]

\* The Result Request.Do builds from the agent's final response.
DoResult(r, resp) ==
  [set |-> TRUE, err |-> combineErr(resp), body |-> resp.body,
   status |-> resp.status,
   decoder |-> IF combineErr(resp) # NilError THEN "nil" ELSE r.c.content.Negotiator]

\* Result.Error.
ResultError(res) == res.err

GoodBody == S(<<"{", "}">>)
BadBody == S(<<"<", ">">>)
ErrBody == S(<<"e", "r", "r">>)

\* Result.Into: the JSON decoder accepts GoodBody.
ResultInto(res) ==
  IF res.err # NilError THEN ResultError(res)
  ELSE IF res.decoder = "nil" THEN Errorf("serializer doesn't exist", <<>>)
  ELSE IF res.body # GoodBody THEN Errorf("decode", << res.body >>)
  ELSE NilError

\* ------------------------------------------------------------------------
\* The typed clients
\* ------------------------------------------------------------------------

Users == S(<<"u", "s", "e", "r", "s">>)
Secrets == S(<<"s", "e", "c", "r", "e", "t", "s">>)
Policies == S(<<"p", "o", "l", "i", "c", "i", "e", "s">>)
Authz == S(<<"a", "u", "t", "h", "z">>)

\* A pointer to a struct, as the typed clients hand to Body.
PtrTo(value) == [kind |-> "ptr", value |-> value]
Opts == S(<<"o", "p", "t", "s">>)

usersGet(c, name) ==
  VersionedParams(Name(Resource(RESTClientGet(c), Users), name), Opts)
usersList(c, timeout) ==
  Timeout(VersionedParams(Resource(RESTClientGet(c), Users), Opts), timeout)
usersCreate(c, user) ==
  Body(VersionedParams(Resource(RESTClientPost(c), Users), Opts), PtrTo(user))
usersUpdate(c, user) ==
  Body(VersionedParams(Name(Resource(RESTClientPut(c), Users), user), Opts), PtrTo(user))
usersDelete(c, name) ==
  Body(Name(Resource(RESTClientDelete(c), Users), name), PtrTo(Opts))
usersDeleteCollection(c, timeout) ==
  Body(Timeout(VersionedParams(Resource(RESTClientDelete(c), Users), Opts), timeout),
       PtrTo(Opts))

secretsGet(c, name) ==
  VersionedParams(Name(Resource(RESTClientGet(c), Secrets), name), Opts)
secretsList(c, timeout) ==
  Timeout(VersionedParams(Resource(RESTClientGet(c), Secrets), Opts), timeout)
secretsCreate(c, secret) ==
  Body(VersionedParams(Resource(RESTClientPost(c), Secrets), Opts), PtrTo(secret))
secretsUpdate(c, secret) ==
  Body(VersionedParams(Name(Resource(RESTClientPut(c), Secrets), secret), Opts), PtrTo(secret))
secretsDelete(c, name) ==
  Body(Name(Resource(RESTClientDelete(c), Secrets), name), PtrTo(Opts))
secretsDeleteCollection(c, timeout) ==
  Body(Timeout(VersionedParams(Resource(RESTClientDelete(c), Secrets), Opts), timeout),
       PtrTo(Opts))

policiesGet(c, name) ==
  VersionedParams(Name(Resource(RESTClientGet(c), Policies), name), Opts)
policiesList(c, timeout) ==
  Timeout(VersionedParams(Resource(RESTClientGet(c), Policies), Opts), timeout)
policiesCreate(c, policy) ==
  Body(VersionedParams(Resource(RESTClientPost(c), Policies), Opts), PtrTo(policy))
policiesUpdate(c, policy) ==
  Body(VersionedParams(Name(Resource(RESTClientPut(c), Policies), policy), Opts), PtrTo(policy))
policiesDelete(c, name) ==
  Body(Name(Resource(RESTClientDelete(c), Policies), name), PtrTo(Opts))
policiesDeleteCollection(c, timeout) ==
  Body(Timeout(VersionedParams(Resource(RESTClientDelete(c), Policies), Opts), timeout),
       PtrTo(Opts))

authzAuthorize(c, request) ==
  Body(VersionedParams(Resource(RESTClientPost(c), Authz), Opts), PtrTo(request))

\* The IamClient of iam.NewForConfig, given what the two NewForConfig
\* calls returned.
IamClientOf(api, authz) ==
  IF api.err # NoErr THEN [err |-> api.err, apiV1 |-> NilClient, authzV1 |-> NilClient]
  ELSE IF authz.err # NoErr
  THEN [err |-> authz.err, apiV1 |-> NilClient, authzV1 |-> NilClient]
  ELSE [err |-> NoErr, apiV1 |-> api.client, authzV1 |-> authz.client]

\* iam.NewForConfig: the IamClient with its two group clients, each made
\* from its own copy of the Config.
IamNewForConfig(c) == IamClientOf(APIV1NewForConfig(c), AuthzV1NewForConfig(c))

\* ------------------------------------------------------------------------
\* State
\* ------------------------------------------------------------------------

VARIABLES
  cfg,      \* the rest.Config the program holds
  other,    \* a second Config, for comparing two runs of Config.String
  input,    \* how the input of the last call was put together
  ret,      \* what the last call on a Config returned
  client,   \* the IamClient made from cfg
  pc,       \* "idle", "building", "awaiting" or "done"
  req,      \* the Request being built or executed
  call,     \* the typed operation that made req
  steps,    \* builder calls made on req so far
  sent,     \* the HTTP requests the agent sent for req, in order
  got,      \* the responses the agent received for req, in order
  result    \* the Result of Do

vars == << cfg, other, input, ret, client, pc, req, call, steps, sent, got, result >>

reqVars == << pc, req, call, steps, sent, got, result >>

\* ------------------------------------------------------------------------
\* Bounds and input sets
\* ------------------------------------------------------------------------

\* The largest Config.MaxRetries tried.
MaxRetriesBound == 1
\* The most builder calls made on one Request before Do.
MaxSteps == 2

Alice == S(<<"a", "l", "i", "c", "e">>)
SlashName == S(<<"a", "/", "b">>)
Names == { <<>>, Alice, SlashName, DotDotSeg }
ValidNames == { n \in Names : Len(n) # 0 /\ Len(IsValidPathSegmentName(n)) = 0 }
Timeouts == {0, 5}

UserU == S(<<"u">>)
PassP == S(<<"p", "w">>)
TokenT == S(<<"t", "o", "k">>)
TokenFileF == S(<<"/", "t", "f">>)
SecretI == S(<<"i", "d">>)
SecretK == S(<<"k", "e", "y">>)
TextYAML == S(<<"t", "e", "x", "t", "/", "y", "a", "m", "l">>)

\* The Configs a program hands to NewForConfig in the request runs: every
\* combination of the credential fields, no TLS.
RequestConfigs ==
  { [ZeroConfig EXCEPT !.Username = u, !.Password = IF u = <<>> THEN <<>> ELSE PassP,
                       !.BearerToken = t, !.BearerTokenFile = f,
                       !.SecretID = i, !.SecretKey = k,
                       !.ContentType = ct, !.MaxRetries = m] :
      u \in {<<>>, UserU}, t \in {<<>>, TokenT}, f \in {<<>>, TokenFileF},
      i \in {<<>>, SecretI}, k \in {<<>>, SecretK},
      ct \in {<<>>, TextYAML}, m \in 0..MaxRetriesBound }

NoCall == [op |-> "none", kind |-> <<>>, name |-> <<>>]
NoInput == [form |-> "none"]
NoRet == [op |-> "none"]

\* What the server, or the transport, answers to one attempt.
Responses ==
  { [kind |-> "response", status |-> StatusOK, body |-> GoodBody],
    [kind |-> "response", status |-> StatusOK, body |-> BadBody],
    [kind |-> "response", status |-> 404, body |-> ErrBody],
    [kind |-> "response", status |-> StatusInternalServerError, body |-> ErrBody],
    [kind |-> "response", status |-> 503, body |-> ErrBody],
    [kind |-> "error", status |-> 0, body |-> ErrBody] }

\* ------------------------------------------------------------------------
\* Requests: Init and actions
\* ------------------------------------------------------------------------

Init ==
  /\ cfg \in RequestConfigs
  /\ other = ZeroConfig
  /\ input = NoInput
  /\ ret = NoRet
  /\ client = IamNewForConfig(cfg)
  /\ pc = "idle"
  /\ req = ZeroRequest
  /\ call = NoCall
  /\ steps = 0
  /\ sent = <<>>
  /\ got = <<>>
  /\ result = NilResult

\* Request.Do up to the first attempt: the agent sends the request whatever
\* r.err holds.
DoSend(r) ==
  /\ req' = r
  /\ pc' = "awaiting"
  /\ sent' = << HTTPRequest(r) >>
  /\ got' = <<>>
  /\ result' = NilResult

\* A typed operation: the whole chain up to Do's first attempt.
Typed(op, kind, name, r) ==
  /\ pc = "idle"
  /\ call' = [op |-> op, kind |-> kind, name |-> name]
  /\ steps' = 0
  /\ DoSend(r)
  /\ UNCHANGED << cfg, other, input, ret, client >>

UsersGet == \E n \in Names : Typed("Get", Users, n, usersGet(client.apiV1, n))
UsersList == \E d \in Timeouts : Typed("List", Users, <<>>, usersList(client.apiV1, d))
UsersCreate == \E n \in Names : Typed("Create", Users, n, usersCreate(client.apiV1, n))
UsersUpdate == \E n \in Names : Typed("Update", Users, n, usersUpdate(client.apiV1, n))
UsersDelete == \E n \in Names : Typed("Delete", Users, n, usersDelete(client.apiV1, n))
UsersDeleteCollection ==
  \E d \in Timeouts :
    Typed("DeleteCollection", Users, <<>>, usersDeleteCollection(client.apiV1, d))

SecretsGet == \E n \in Names : Typed("Get", Secrets, n, secretsGet(client.apiV1, n))
SecretsList == \E d \in Timeouts : Typed("List", Secrets, <<>>, secretsList(client.apiV1, d))
SecretsCreate == \E n \in Names : Typed("Create", Secrets, n, secretsCreate(client.apiV1, n))
SecretsUpdate == \E n \in Names : Typed("Update", Secrets, n, secretsUpdate(client.apiV1, n))
SecretsDelete == \E n \in Names : Typed("Delete", Secrets, n, secretsDelete(client.apiV1, n))
SecretsDeleteCollection ==
  \E d \in Timeouts :
    Typed("DeleteCollection", Secrets, <<>>, secretsDeleteCollection(client.apiV1, d))

PoliciesGet == \E n \in Names : Typed("Get", Policies, n, policiesGet(client.apiV1, n))
PoliciesList == \E d \in Timeouts : Typed("List", Policies, <<>>, policiesList(client.apiV1, d))
PoliciesCreate == \E n \in Names : Typed("Create", Policies, n, policiesCreate(client.apiV1, n))
PoliciesUpdate == \E n \in Names : Typed("Update", Policies, n, policiesUpdate(client.apiV1, n))
PoliciesDelete == \E n \in Names : Typed("Delete", Policies, n, policiesDelete(client.apiV1, n))
PoliciesDeleteCollection ==
  \E d \in Timeouts :
    Typed("DeleteCollection", Policies, <<>>, policiesDeleteCollection(client.apiV1, d))

AuthzAuthorize == Typed("Authorize", Authz, <<>>, authzAuthorize(client.authzV1, Opts))

\* A caller of the rest package builds a Request step by step.
Building(r) ==
  /\ pc = "building"
  /\ steps < MaxSteps
  /\ req' = r
  /\ steps' = steps + 1
  /\ UNCHANGED << cfg, other, input, ret, client, pc, call, sent, got, result >>

GenericVerbs == {VerbGET, VerbDELETE}
GenericResources == {Users, S(<<"U", "s", "e", "r", "s">>), SlashName}
GenericSubResources == { << S(<<"s", "t", "a", "t", "u", "s">>) >>, << S(<<"%">>) >> }
GenericBodies == { [kind |-> "struct", value |-> Opts], PtrTo(Opts),
                   [kind |-> "slice", value |-> Opts] }

ReqBegin ==
  /\ pc = "idle"
  /\ \E v \in GenericVerbs : req' = RESTClientVerb(client.apiV1, v)
  /\ pc' = "building"
  /\ call' = [op |-> "generic", kind |-> <<>>, name |-> <<>>]
  /\ steps' = 0
  /\ sent' = <<>>
  /\ got' = <<>>
  /\ result' = NilResult
  /\ UNCHANGED << cfg, other, input, ret, client >>

ReqResource == \E x \in GenericResources : Building(Resource(req, x))
ReqName == \E n \in Names : Building(Name(req, n))
ReqSubResource == \E s \in GenericSubResources : Building(SubResource(req, s))
ReqBody == \E b \in GenericBodies : Building(Body(req, b))

ReqDo ==
  /\ pc = "building"
  /\ DoSend(req)
  /\ UNCHANGED << cfg, other, input, ret, client, call, steps >>

\* The agent gets the answer to its last attempt: it sends the request
\* again, or Do returns the Result.
Respond ==
  /\ pc = "awaiting"
  /\ \E resp \in Responses :
       /\ got' = Append(got, resp)
       /\ IF resp.kind = "response"
             /\ AgentRetries(req.c.Client, Len(sent) - 1, resp.status)
          THEN /\ sent' = Append(sent, HTTPRequest(req))
               /\ UNCHANGED << pc, result >>
          ELSE /\ pc' = "done"
               /\ result' = DoResult(req, resp)
               /\ UNCHANGED sent
  /\ UNCHANGED << cfg, other, input, ret, client, req, call, steps >>

\* The caller has read the Result (Into, Error or Raw) and drops it and
\* the Request.
Return ==
  /\ pc = "done"
  /\ pc' = "idle"
  /\ req' = ZeroRequest
  /\ call' = NoCall
  /\ steps' = 0
  /\ sent' = <<>>
  /\ got' = <<>>
  /\ result' = NilResult
  /\ UNCHANGED << cfg, other, input, ret, client >>

Next ==
  \/ UsersGet \/ UsersList \/ UsersCreate \/ UsersUpdate \/ UsersDelete
  \/ UsersDeleteCollection
  \/ SecretsGet \/ SecretsList \/ SecretsCreate \/ SecretsUpdate \/ SecretsDelete
  \/ SecretsDeleteCollection
  \/ PoliciesGet \/ PoliciesList \/ PoliciesCreate \/ PoliciesUpdate \/ PoliciesDelete
  \/ PoliciesDeleteCollection
  \/ AuthzAuthorize
  \/ ReqBegin \/ ReqResource \/ ReqName \/ ReqSubResource \/ ReqBody \/ ReqDo
  \/ Respond \/ Return

Spec == Init /\ [][Next]_vars

\* ------------------------------------------------------------------------
\* Calls on a Config: Config.String, DefaultServerURL, the TLS helpers
\* ------------------------------------------------------------------------

\* The state a call on a Config leaves: the Config after the call and what
\* the call returned, with the Config it was entered with.
ConfigCall(op, after, err, out) ==
  /\ cfg' = after
  /\ ret' = [op |-> op, entry |-> cfg, err |-> err, out |-> out]
  /\ UNCHANGED << other, input, client, pc, req, call, steps, sent, got, result >>

IdleRequests ==
  /\ client = [err |-> NoErr, apiV1 |-> NilClient, authzV1 |-> NilClient]
  /\ pc = "idle"
  /\ req = ZeroRequest
  /\ call = NoCall
  /\ steps = 0
  /\ sent = <<>>
  /\ got = <<>>
  /\ result = NilResult

\* --- Config.String and Config.GoString, on two Configs ---

PassQ == S(<<"q", "q">>)
TokenV == S(<<"v", "v">>)
SecretL == S(<<"l", "l">>)
KeyBytesA == S(<<"A", "A", "=", "=">>)
KeyBytesB == S(<<"B", "B", "=", "=">>)

SecretConfigs ==
  { [ZeroConfig EXCEPT !.Username = u, !.Password = pw, !.BearerToken = t,
                       !.SecretID = IF sk = <<>> THEN <<>> ELSE SecretI,
                       !.SecretKey = sk, !.KeyData = kd, !.MaxRetries = 3] :
      u \in {<<>>, UserU}, pw \in {<<>>, PassP, PassQ}, t \in {<<>>, TokenT, TokenV},
      sk \in {<<>>, SecretK, SecretL}, kd \in {<<>>, KeyBytesA, KeyBytesB} }

InitString ==
  /\ cfg \in SecretConfigs
  /\ other \in SecretConfigs
  /\ input = NoInput
  /\ ret = NoRet
  /\ IdleRequests

StringCall ==
  ConfigCall("String", ConfigString(cfg).c, NoErr,
             [a |-> ConfigString(cfg).out, b |-> ConfigString(other).out])

GoStringCall ==
  ConfigCall("GoString", ConfigGoString(cfg).c, NoErr,
             [a |-> ConfigGoString(cfg).out, b |-> ConfigGoString(other).out])

NextString == StringCall \/ GoStringCall

SpecString == InitString /\ [][NextString]_vars

\* --- DefaultServerURL ---

Localhost == S(<<"l", "o", "c", "a", "l", "h", "o", "s", "t">>)
IPv4Host == S(<<"1", "0", ".", "0", ".", "0", ".", "1">>)
DomainHost == S(<<"i", "a", "m", ".", "i", "o">>)
Port8080 == S(<<"8", "0", "8", "0">>)
SchemeHTTP == S(<<"h", "t", "t", "p">>)
SchemeHTTPS == S(<<"h", "t", "t", "p", "s">>)
ProxyPath == S(<<"/", "p", "r", "o", "x", "y">>)
APIPathValue == S(<<"/", "a", "p", "i">>)
SchemeSep == S(<<":", "/", "/">>)

HostNames == {Localhost, IPv4Host, DomainHost}

\* A host in one of the three forms, with the authority (host, or host and
\* port) it names; form "none" is the empty host.
HostInputs ==
  { [form |-> "none", text |-> <<>>, authority |-> <<>>] }
  \cup { [form |-> "host", text |-> h, authority |-> h] : h \in HostNames }
  \cup { [form |-> "hostport", text |-> h \o <<Colon>> \o Port8080,
          authority |-> h \o <<Colon>> \o Port8080] : h \in HostNames }
  \cup { [form |-> "url", text |-> s \o SchemeSep \o h \o p \o path,
          authority |-> h \o p] :
           s \in {SchemeHTTP, SchemeHTTPS}, h \in HostNames,
           p \in {<<>>, <<Colon>> \o Port8080}, path \in {<<>>, ProxyPath} }

InitURL ==
  /\ input \in HostInputs
  /\ cfg \in { [ZeroConfig EXCEPT !.Host = input.text, !.APIPath = ap,
                                  !.GroupVersion = GroupVersionOf(g, VersionV1),
                                  !.Insecure = ins] :
                 ap \in {<<>>, APIPathValue}, g \in {GroupIamAPI, GroupIamAuthz},
                 ins \in BOOLEAN }
  /\ other = ZeroConfig
  /\ ret = NoRet
  /\ IdleRequests

DefaultServerURLCall ==
  \E defaultTLS \in BOOLEAN :
    ConfigCall("DefaultServerURL", cfg,
               DefaultServerURL(cfg.Host, cfg.APIPath, cfg.GroupVersion, defaultTLS).err,
               DefaultServerURL(cfg.Host, cfg.APIPath, cfg.GroupVersion, defaultTLS))

DefaultServerURLForCall ==
  ConfigCall("defaultServerURLFor", cfg, defaultServerURLFor(cfg).err,
             defaultServerURLFor(cfg))

NextURL == DefaultServerURLCall \/ DefaultServerURLForCall

SpecURL == InitURL /\ [][NextURL]_vars

\* --- LoadTLSFiles, TLSConfigFor, RESTClientFor ---

NewlineOnly == <<LineFeed>>
ServerNameValue == S(<<"s", "n", "i">>)

TLSConfigs ==
  { [ZeroConfig EXCEPT !.CAData = cad, !.CAFile = caf, !.CertData = ced,
                       !.CertFile = cef, !.KeyData = kd, !.KeyFile = kf,
                       !.Insecure = ins, !.ServerName = sn,
                       !.GroupVersion = gn[1], !.Negotiator = gn[2]] :
      cad \in {<<>>, B64Encode(PemCA), NewlineOnly, PemCA},
      caf \in {<<>>, CAPath, EmptyPath, MissingPath},
      ced \in {<<>>, B64Encode(PemCert), NewlineOnly},
      cef \in {<<>>, CertPath, EmptyPath},
      kd \in {<<>>, B64Encode(PemKey), NewlineOnly},
      kf \in {<<>>, KeyPath, EmptyPath},
      ins \in BOOLEAN, sn \in {<<>>, ServerNameValue},
      gn \in { << GroupVersionOf(GroupIamAPI, VersionV1), "simple" >>,
               << NilGroupVersion, "simple" >>,
               << GroupVersionOf(GroupIamAPI, VersionV1), "nil" >> } }

InitTLS ==
  /\ cfg \in TLSConfigs
  /\ other = ZeroConfig
  /\ input = NoInput
  /\ ret = NoRet
  /\ IdleRequests

LoadTLSFilesCall ==
  ConfigCall("LoadTLSFiles", LoadTLSFiles(cfg).c, LoadTLSFiles(cfg).err, LoadTLSFiles(cfg))

TLSConfigForCall ==
  ConfigCall("TLSConfigFor", TLSConfigFor(cfg).c, TLSConfigFor(cfg).err, TLSConfigFor(cfg))

RESTClientForCall ==
  ConfigCall("RESTClientFor", RESTClientFor(cfg).c, RESTClientFor(cfg).err,
             RESTClientFor(cfg))

NextTLS == LoadTLSFilesCall \/ TLSConfigForCall \/ RESTClientForCall

SpecTLS == InitTLS /\ [][NextTLS]_vars

\* ------------------------------------------------------------------------
\* tools/clientcmd: Config, validation, loading
\* ------------------------------------------------------------------------

\* The zero AuthInfo and the zero Server.
ZeroAuthInfo ==
  [LocationOfOrigin |-> <<>>, ClientCertificate |-> <<>>, ClientCertificateData |-> <<>>,
   ClientKey |-> <<>>, ClientKeyData |-> <<>>, Token |-> <<>>,
   Username |-> <<>>, Password |-> <<>>, SecretID |-> <<>>, SecretKey |-> <<>>]

ZeroServer ==
  [LocationOfOrigin |-> <<>>, Timeout |-> 0, MaxRetries |-> 0, RetryInterval |-> 0,
   Address |-> <<>>, TLSServerName |-> <<>>, InsecureSkipTLSVerify |-> FALSE,
   CertificateAuthority |-> <<>>, CertificateAuthorityData |-> <<>>]

\* A *clientcmd.Config; set = FALSE is nil.
NilCmdConfig ==
  [set |-> FALSE, APIVersion |-> <<>>, AuthInfo |-> ZeroAuthInfo, Server |-> ZeroServer]

\* NewConfig.
NewConfig == [NilCmdConfig EXCEPT !.set = TRUE]

\* The errors of the package: nil, errors.New and fmt.Errorf values (kind
\* "error"), *errEmptyConfig and errConfigurationInvalid.
CmdNil == [kind |-> "nil", message |-> "", errs |-> <<>>]
CmdError(message) == [kind |-> "error", message |-> message, errs |-> <<>>]

\* NewEmptyConfigError.
NewEmptyConfigError(message) == [kind |-> "errEmptyConfig", message |-> message, errs |-> <<>>]

ErrEmptyConfig ==
  NewEmptyConfigError("no configuration has been provided, try setting IAM_SERVER_ADDRESS environment variable")

ErrEmptyServer == CmdError("server has no server defined")

\* newErrConfigurationInvalid.
newErrConfigurationInvalid(errs) ==
  IF Len(errs) = 0 THEN CmdNil
  ELSE [kind |-> "errConfigurationInvalid", message |-> "invalid configuration", errs |-> errs]

\* IsEmptyConfig.
IsEmptyConfig(err) ==
  IF err.kind = "errConfigurationInvalid"
  THEN Len(err.errs) = 1 /\ err.errs[1].kind = "errEmptyConfig"
  ELSE err.kind = "errEmptyConfig"

\* IsConfigurationInvalid.
IsConfigurationInvalid(err) == err.kind = "errConfigurationInvalid"

\* os.Open succeeds on the files the process can read.
OpenOK(file) == file \in DOMAIN FileSystem

\* validateServerInfo.
validateServerInfo(serverInfo) ==
  IF serverInfo = ZeroServer THEN << ErrEmptyServer >>
  ELSE (IF /\ Len(serverInfo.CertificateAuthority) # 0
           /\ Len(serverInfo.CertificateAuthorityData) # 0
        THEN << CmdError("certificate-authority-data and certificate-authority are both specified. certificate-authority-data will override") >>
        ELSE <<>>)
       \o (IF Len(serverInfo.CertificateAuthority) # 0 /\ ~OpenOK(serverInfo.CertificateAuthority)
           THEN << CmdError("unable to read certificate-authority %v due to %v") >>
           ELSE <<>>)

\* The authentication methods validateAuthInfo finds.
AuthInfoMethods(authInfo) ==
  (IF Len(authInfo.Token) # 0 THEN << "token" >> ELSE <<>>)
  \o (IF Len(authInfo.Username) # 0 \/ Len(authInfo.Password) # 0
      THEN << "basicAuth" >> ELSE <<>>)
  \o (IF Len(authInfo.SecretID) # 0 \/ Len(authInfo.SecretKey) # 0
      THEN << "secretAuth" >> ELSE <<>>)

\* A check that lets two methods pass.
MethodErrorsOverTwo(authInfo) ==
  IF Len(AuthInfoMethods(authInfo)) > 2
  THEN << CmdError("more than one authentication method found; found %v, only one is allowed") >>
  ELSE <<>>

\* The check of validateAuthInfo on the number of methods.
MethodErrors(authInfo) ==
  IF Len(AuthInfoMethods(authInfo)) > 1
  THEN << CmdError("more than one authentication method found; found %v, only one is allowed") >>
  ELSE <<>>

\* The checks of validateAuthInfo on the client certificate and key.
CertErrors(authInfo) ==
  (IF Len(authInfo.ClientCertificate) # 0 /\ Len(authInfo.ClientCertificateData) # 0
   THEN << CmdError("client-cert-data and client-cert are both specified. client-cert-data will override") >>
   ELSE <<>>)
  \o (IF Len(authInfo.ClientKey) # 0 /\ Len(authInfo.ClientKeyData) # 0
      THEN << CmdError("client-key-data and client-key are both specified; client-key-data will override") >>
      ELSE <<>>)
  \o (IF Len(authInfo.ClientKey) = 0 /\ Len(authInfo.ClientKeyData) = 0
      THEN << CmdError("client-key-data or client-key must be specified to use the clientCert authentication method") >>
      ELSE <<>>)
  \o (IF Len(authInfo.ClientCertificate) # 0 /\ ~OpenOK(authInfo.ClientCertificate)
      THEN << CmdError("unable to read client-cert %v due to %v") >>
      ELSE <<>>)
  \o (IF Len(authInfo.ClientKey) # 0 /\ ~OpenOK(authInfo.ClientKey)
      THEN << CmdError("unable to read client-key %v due to %v") >>
      ELSE <<>>)

\* validateAuthInfo: it returns before the certificate checks when the
\* certificate file or the certificate data is empty.
validateAuthInfo(authInfo) ==
  IF Len(authInfo.ClientCertificate) = 0 \/ Len(authInfo.ClientCertificateData) = 0
  THEN MethodErrors(authInfo)
  ELSE MethodErrors(authInfo) \o CertErrors(authInfo)

\* ConfirmUsable, given the validation errors it collected.
ConfirmUsableErrors(validationErrors) ==
  IF Len(validationErrors) = 1 /\ validationErrors[1] = ErrEmptyServer
  THEN newErrConfigurationInvalid(<< ErrEmptyConfig >>)
  ELSE newErrConfigurationInvalid(validationErrors)

\* DirectClientConfig.ConfirmUsable.
ConfirmUsable(config) ==
  ConfirmUsableErrors(validateAuthInfo(config.AuthInfo) \o validateServerInfo(config.Server))

\* --- url.ParseRequestURI and URL.String, as ClientConfig uses them ---

\* parse (viaRequest = true), once the scheme and the query are cut off.
UrlParseRestViaRequest(scheme, rest, query) ==
  IF ~HasPrefix(rest, <<Slash>>) /\ scheme # <<>>
  THEN [err |-> NoErr,
        url |-> [EmptyURL EXCEPT !.Scheme = scheme, !.Opaque = rest, !.RawQuery = query]]
  ELSE IF ~HasPrefix(rest, <<Slash>>)
  THEN UrlError("invalid URI for request")
  ELSE IF HasPrefix(rest, <<Slash, Slash>>) /\ scheme # <<>>
  THEN UrlParseAuthority(scheme, query, From(rest, 2), IndexByte(From(rest, 2), Slash))
  ELSE [err |-> NoErr,
        url |-> [EmptyURL EXCEPT !.Scheme = scheme, !.Path = rest, !.RawQuery = query]]

UrlParseQueryViaRequest(scheme, rest, q) ==
  UrlParseRestViaRequest(ToLower(scheme),
                         IF q = 0 THEN rest ELSE SubSeq(rest, 1, q - 1),
                         IF q = 0 THEN <<>> ELSE SubSeq(rest, q + 1, Len(rest)))

UrlParseSchemeViaRequest(sch) ==
  IF sch.err # NoErr THEN UrlError(sch.err)
  ELSE UrlParseQueryViaRequest(sch.scheme, sch.rest, IndexByte(sch.rest, Question))

\* url.ParseRequestURI: no fragment is cut off, and the empty string is an
\* error.
UrlParseRequestURI(rawURL) ==
  IF \E i \in 1..Len(rawURL) : rawURL[i] < 32 \/ rawURL[i] = 127
  THEN UrlError("net/url: invalid control character in URL")
  ELSE IF rawURL = <<>>
  THEN UrlError("empty url")
  ELSE IF rawURL = <<Star>>
  THEN [err |-> NoErr, url |-> [EmptyURL EXCEPT !.Path = rawURL]]
  ELSE UrlParseSchemeViaRequest(GetSchemeAt(rawURL, 1))

\* URL.String of a URL without opaque part, whose host and path need no
\* escaping.
UrlString(u) ==
  (IF u.Scheme # <<>> THEN u.Scheme \o <<Colon>> ELSE <<>>)
  \o (IF /\ (u.Scheme # <<>> \/ u.Host # <<>> \/ u.User # <<>>)
         /\ (u.Host # <<>> \/ u.Path # <<>> \/ u.User # <<>>)
      THEN <<Slash, Slash>> ELSE <<>>)
  \o (IF u.User # <<>> THEN u.User \o <<AtSign>> ELSE <<>>)
  \o u.Host
  \o (IF u.Path # <<>> /\ u.Path[1] # Slash /\ u.Host # <<>> THEN <<Slash>> ELSE <<>>)
  \o u.Path
  \o (IF u.RawQuery # <<>> THEN <<Question>> \o u.RawQuery ELSE <<>>)
  \o (IF u.Fragment # <<>> THEN <<Hash>> \o u.Fragment ELSE <<>>)

\* The Host ClientConfig settles on, given the parse of the address.
ClientConfigHost(address, parsed) ==
  IF parsed.err = NoErr /\ parsed.url.Opaque = <<>> /\ Len(parsed.url.Path) > 1
  THEN UrlString([parsed.url EXCEPT !.RawQuery = <<>>, !.Fragment = <<>>])
  ELSE address

\* The restclient.Config that ClientConfig builds from a usable config.
ClientConfigOf(user, server) ==
  [ZeroConfig EXCEPT
     !.BearerToken = user.Token, !.Username = user.Username,
     !.Password = user.Password, !.SecretID = user.SecretID,
     !.SecretKey = user.SecretKey,
     !.Host = ClientConfigHost(server.Address, UrlParseRequestURI(server.Address)),
     !.Timeout = server.Timeout, !.MaxRetries = server.MaxRetries,
     !.RetryInterval = server.RetryInterval,
     !.Insecure = server.InsecureSkipTLSVerify, !.ServerName = server.TLSServerName,
     !.CertFile = user.ClientCertificate, !.KeyFile = user.ClientKey,
     !.CertData = user.ClientCertificateData, !.KeyData = user.ClientKeyData,
     !.CAFile = server.CertificateAuthority,
     !.CAData = server.CertificateAuthorityData]

\* ClientConfig, given what ConfirmUsable returned; set = FALSE is a nil
\* *restclient.Config.
ClientConfigChecked(config, err) ==
  IF err # CmdNil THEN [err |-> err, set |-> FALSE, config |-> ZeroConfig]
  ELSE [err |-> CmdNil, set |-> TRUE,
        config |-> ClientConfigOf(config.AuthInfo, config.Server)]

\* DirectClientConfig.ClientConfig.
ClientConfig(config) == ClientConfigChecked(config, ConfirmUsable(config))

\* --- loader.go ---

\* The yaml keys of the string fields of AuthInfo and Server; a field
\* without a tag goes by its lower-cased name.
AuthInfoKeys ==
  [LocationOfOrigin |-> "locationoforigin", ClientCertificate |-> "client-certificate",
   ClientCertificateData |-> "client-certificate-data", ClientKey |-> "client-key",
   ClientKeyData |-> "client-key-data", Token |-> "token", Username |-> "username",
   Password |-> "password", SecretID |-> "secret-id", SecretKey |-> "secret-key"]

ServerKeys ==
  [LocationOfOrigin |-> "locationoforigin", Address |-> "address",
   TLSServerName |-> "tls-server-name", CertificateAuthority |-> "certificate-authority",
   CertificateAuthorityData |-> "certificate-authority-data"]

\* A yaml mapping of strings: the non-empty string fields of v under their
\* keys.
YamlMapping(keys, v) ==
  [k \in {keys[f] : f \in {g \in DOMAIN keys : v[g] # <<>>}} |->
     v[CHOOSE f \in DOMAIN keys : keys[f] = k]]

\* The iamconfig documents: the empty file, a file that is not yaml, and a
\* mapping with a user and a server section (an empty section is absent).
EmptyDocument == [kind |-> "empty", user |-> <<>>, server |-> <<>>]
InvalidDocument == [kind |-> "invalid", user |-> <<>>, server |-> <<>>]
YamlDocument(config) ==
  [kind |-> "map", user |-> YamlMapping(AuthInfoKeys, config.AuthInfo),
   server |-> YamlMapping(ServerKeys, config.Server)]

\* yaml.Unmarshal of a mapping onto a struct: the fields whose key is in
\* the mapping are set, the others are kept.
UnmarshalStruct(old, keys, mapping) ==
  [f \in DOMAIN old |->
     IF f \in DOMAIN keys /\ keys[f] \in DOMAIN mapping THEN mapping[keys[f]] ELSE old[f]]

\* yaml.Unmarshal of a document onto a Config.
Unmarshal(data, config) ==
  [config EXCEPT
     !.AuthInfo = UnmarshalStruct(config.AuthInfo, AuthInfoKeys, data.user),
     !.Server = UnmarshalStruct(config.Server, ServerKeys, data.server)]

\* Load.
Load(data) ==
  IF data.kind = "empty" THEN [err |-> CmdNil, config |-> NewConfig]
  ELSE IF data.kind = "invalid"
  THEN [err |-> CmdError("yaml: unmarshal errors"), config |-> NilCmdConfig]
  ELSE [err |-> CmdNil, config |-> Unmarshal(data, NewConfig)]

IamConfigPath == S(<<"i", "a", "m", ".", "y", "a", "m", "l">>)

\* ioutil.ReadFile of an iamconfig: the file at IamConfigPath holds the
\* document of the run, the empty file is an empty document and the PEM
\* files are not iamconfigs.
ReadIamConfig(filename) ==
  IF filename = IamConfigPath THEN [err |-> CmdNil, data |-> input.data]
  ELSE IF filename \in DOMAIN FileSystem
  THEN [err |-> CmdNil,
        data |-> IF FileSystem[filename] = <<>> THEN EmptyDocument ELSE InvalidDocument]
  ELSE [err |-> CmdError("open: no such file or directory"), data |-> EmptyDocument]

\* LoadFromFile, once Load returned: the file name is recorded as the
\* origin of both sections.
LoadFromFileLoaded(filename, loaded) ==
  IF loaded.err # CmdNil THEN [err |-> loaded.err, config |-> NilCmdConfig]
  ELSE [err |-> CmdNil,
        config |-> [loaded.config EXCEPT !.AuthInfo.LocationOfOrigin = filename,
                                         !.Server.LocationOfOrigin = filename]]

LoadFromFileRead(filename, read) ==
  IF read.err # CmdNil THEN [err |-> read.err, config |-> NilCmdConfig]
  ELSE LoadFromFileLoaded(filename, Load(read.data))

\* LoadFromFile.
LoadFromFile(filename) == LoadFromFileRead(filename, ReadIamConfig(filename))

\* BuildConfigFromFlags, once LoadFromFile returned.
BuildConfigLoaded(serverURL, loaded) ==
  IF loaded.err # CmdNil THEN [err |-> loaded.err, set |-> FALSE, config |-> ZeroConfig]
  ELSE ClientConfig(IF Len(serverURL) > 0
                    THEN [loaded.config EXCEPT !.Server.Address = serverURL]
                    ELSE loaded.config)

\* BuildConfigFromFlags.
BuildConfigFromFlags(serverURL, iamconfigPath) ==
  BuildConfigLoaded(serverURL, LoadFromFile(iamconfigPath))

\* ------------------------------------------------------------------------
\* Specification of the clientcmd calls: a Config is made directly, from
\* bytes or from a file, then checked and turned into a restclient.Config
\* ------------------------------------------------------------------------

AddressIP == SchemeHTTP \o SchemeSep \o IPv4Host \o <<Colon>> \o Port8080
AddressProxy == SchemeHTTPS \o SchemeSep \o DomainHost \o ProxyPath
FlagServerURL == SchemeHTTP \o SchemeSep \o Localhost \o <<Colon>> \o Port8080

AuthInfos ==
  { [ZeroAuthInfo EXCEPT !.Token = t, !.Username = b[1], !.Password = b[2],
                         !.SecretID = k[1], !.SecretKey = k[2],
                         !.ClientCertificate = cc, !.ClientCertificateData = cd,
                         !.ClientKey = ck, !.ClientKeyData = kd] :
      t \in {<<>>, TokenT},
      b \in {<< <<>>, <<>> >>, << UserU, PassP >>, << UserU, <<>> >>},
      k \in {<< <<>>, <<>> >>, << SecretI, SecretK >>},
      cc \in {<<>>, CertPath, MissingPath}, cd \in {<<>>, PemCert},
      ck \in {<<>>, KeyPath}, kd \in {<<>>, PemKey} }

Servers ==
  { [ZeroServer EXCEPT !.Address = a, !.CertificateAuthority = ca] :
      a \in {<<>>, AddressIP, AddressProxy}, ca \in {<<>>, MissingPath} }
  \cup { [ZeroServer EXCEPT !.Address = AddressIP, !.CertificateAuthority = CAPath] }

\* What a run starts from: how the Config is made, the Config a caller
\* fills in directly, and the iamconfig document.
CmdInputs ==
  { [how |-> h, config |-> [NewConfig EXCEPT !.AuthInfo = a, !.Server = s],
     data |-> YamlDocument([NewConfig EXCEPT !.AuthInfo = a, !.Server = s])] :
      h \in {"NewConfig", "Load", "LoadFromFile"}, a \in AuthInfos, s \in Servers }
  \cup { [how |-> h, config |-> NewConfig, data |-> d] :
           h \in {"Load", "LoadFromFile"}, d \in {EmptyDocument, InvalidDocument} }

Filenames == {IamConfigPath, MissingPath, <<>>}

InitCmd ==
  /\ input \in CmdInputs
  /\ cfg = NilCmdConfig
  /\ other = ZeroConfig
  /\ ret = NoRet
  /\ IdleRequests

\* NewClientConfigFromConfig on a Config the caller filled in.
NewClientConfigFromConfigCall ==
  /\ input.how = "NewConfig"
  /\ ~cfg.set
  /\ ConfigCall("NewClientConfigFromConfig", input.config, CmdNil, input.config)

\* NewClientConfigFromBytes.
NewClientConfigFromBytesCall ==
  /\ input.how = "Load"
  /\ ~cfg.set
  /\ ConfigCall("NewClientConfigFromBytes", Load(input.data).config,
                Load(input.data).err, input.data)

LoadFromFileCall ==
  /\ input.how = "LoadFromFile"
  /\ ~cfg.set
  /\ \E filename \in Filenames :
       ConfigCall("LoadFromFile", LoadFromFile(filename).config,
                  LoadFromFile(filename).err, filename)

ConfirmUsableCall ==
  /\ cfg.set
  /\ ConfigCall("ConfirmUsable", cfg, ConfirmUsable(cfg), cfg)

ClientConfigCall ==
  /\ cfg.set
  /\ ConfigCall("ClientConfig", cfg, ClientConfig(cfg).err, ClientConfig(cfg))

BuildConfigFromFlagsCall ==
  /\ input.how = "LoadFromFile"
  /\ ~cfg.set
  /\ \E serverURL \in {<<>>, FlagServerURL}, iamconfigPath \in Filenames :
       ConfigCall("BuildConfigFromFlags", cfg,
                  BuildConfigFromFlags(serverURL, iamconfigPath).err,
                  [serverURL |-> serverURL, iamconfigPath |-> iamconfigPath,
                   loaded |-> LoadFromFile(iamconfigPath),
                   set |-> BuildConfigFromFlags(serverURL, iamconfigPath).set,
                   config |-> BuildConfigFromFlags(serverURL, iamconfigPath).config])

NextCmd ==
  \/ NewClientConfigFromConfigCall
  \/ NewClientConfigFromBytesCall
  \/ LoadFromFileCall
  \/ ConfirmUsableCall
  \/ ClientConfigCall
  \/ BuildConfigFromFlagsCall

SpecCmd == InitCmd /\ [][NextCmd]_vars

\* ------------------------------------------------------------------------
\* rest.Request: Param and RequestURI
\* ------------------------------------------------------------------------

Ampersand == Ord("&")
SpaceByte == Ord(" ")

\* Request.setParam: the value is appended to the values of the name.
setParam(r, paramName, value) ==
  [r EXCEPT !.params =
     [k \in DOMAIN r.params \cup {paramName} |->
        IF k # paramName THEN r.params[k]
        ELSE IF k \in DOMAIN r.params THEN Append(r.params[k], value)
        ELSE << value >>]]

\* Request.Param.
Param(r, paramName, s) == IF r.err # NilError THEN r ELSE setParam(r, paramName, s)

\* url.QueryUnescape of a string without a percent escape.
QueryUnescape(s) == [i \in 1..Len(s) |-> IF s[i] = Plus THEN SpaceByte ELSE s[i]]

\* One key=value pair of a query added to the values m; eq is the place of
\* its first '=' (0 when there is none).
ParseQueryPair(m, pair, eq) ==
  IF pair = <<>> THEN m
  ELSE setParam([params |-> m],
                QueryUnescape(IF eq = 0 THEN pair ELSE SubSeq(pair, 1, eq - 1)),
                QueryUnescape(IF eq = 0 THEN <<>> ELSE SubSeq(pair, eq + 1, Len(pair)))).params

\* url.ParseQuery of a query whose pairs are separated by '&'; amp is the
\* place of the first '&' (0 when there is none).
RECURSIVE ParseQueryAt(_, _, _)
ParseQueryAt(m, query, amp) ==
  IF query = <<>> THEN m
  ELSE IF amp = 0 THEN ParseQueryPair(m, query, IndexByte(query, Equals))
  ELSE ParseQueryAt(ParseQueryPair(m, SubSeq(query, 1, amp - 1),
                                   IndexByte(SubSeq(query, 1, amp - 1), Equals)),
                    From(query, amp), IndexByte(From(query, amp), Ampersand))

\* URL.Query.
UrlQuery(u) == ParseQueryAt(NoValues, u.RawQuery, IndexByte(u.RawQuery, Ampersand))

\* RequestURI with the values of the locator's query: each key of the
\* query takes the place of the request's parameter of that name.
RequestURIQuery(r, query) ==
  [r EXCEPT !.params =
     [k \in DOMAIN r.params \cup DOMAIN query |->
        IF k \in DOMAIN query THEN query[k] ELSE r.params[k]]]

\* RequestURI, once url.Parse returned.
RequestURIParsed(r, locator) ==
  IF locator.err # NoErr THEN [r EXCEPT !.err = Errorf(locator.err, <<>>)]
  ELSE RequestURIQuery([r EXCEPT !.pathPrefix = locator.url.Path], UrlQuery(locator.url))

\* Request.RequestURI.
RequestURI(r, uri) == IF r.err # NilError THEN r ELSE RequestURIParsed(r, UrlParse(uri))

\* ------------------------------------------------------------------------
\* Specification of a Request built by a caller: any setters in any order
\* ------------------------------------------------------------------------

MaxCalls == 5

SegP == S(<<"p">>)
SegS == S(<<"s">>)
SegStatus == S(<<"s", "t", "a", "t", "u", "s">>)
UsersTitle == S(<<"U", "s", "e", "r", "s">>)
KeyA == S(<<"a">>)
KeyB == S(<<"b">>)
Value1 == S(<<"1">>)
Value2 == S(<<"2">>)
Value3 == S(<<"3">>)
PathX == S(<<"/", "x">>)
PathY == S(<<"/", "y">>)
BadURI == S(<<":", "b", "a", "d">>)

PrefixSegments == { << SegP >>, << DotDotSeg >> }
SuffixSegments == { << SegS >>, << DotDotSeg >> }
BuildResources == { Users, UsersTitle }
BuildNames == { Alice, <<>> }
BuildSubResources == { << SegStatus >> }
ParamPairs == { << KeyA, Value1 >>, << KeyB, Value2 >> }

\* key=value pairs joined by '&'.
RECURSIVE EncodePairs(_)
EncodePairs(pairs) ==
  IF pairs = <<>> THEN <<>>
  ELSE pairs[1][1] \o <<Equals>> \o pairs[1][2]
       \o (IF Len(pairs) > 1 THEN <<Ampersand>> \o EncodePairs(Tail(pairs)) ELSE <<>>)

\* The url.Values that hold the pairs, in their order.
RECURSIVE ValuesOf(_)
ValuesOf(pairs) ==
  IF pairs = <<>> THEN NoValues
  ELSE setParam([params |-> ValuesOf(SubSeq(pairs, 1, Len(pairs) - 1))],
                pairs[Len(pairs)][1], pairs[Len(pairs)][2]).params

\* A server-relative URI with the path and the parameters it spells, and a
\* text url.Parse refuses.
URIs ==
  { [ok |-> TRUE, path |-> pa, pairs |-> q,
     text |-> pa \o (IF q = <<>> THEN <<>> ELSE <<Question>> \o EncodePairs(q))] :
      pa \in {PathX}, q \in { <<>>, << << KeyB, Value3 >> >> } }
  \cup { [ok |-> FALSE, path |-> <<>>, pairs |-> <<>>, text |-> BadURI] }

\* The setter calls that took effect on the Request so far.
NoHistory(r) ==
  [op |-> "build", prefix |-> << r.pathPrefix >>, resource |-> <<>>, name |-> <<>>,
   subresource |-> <<>>, suffix |-> <<>>, uri |-> FALSE]

InitBuild ==
  /\ cfg = [ZeroConfig EXCEPT !.BearerToken = TokenT]
  /\ other = ZeroConfig
  /\ input = NoInput
  /\ ret = NoRet
  /\ client = IamNewForConfig(cfg)
  /\ pc = "building"
  /\ req \in { RESTClientVerb(client.apiV1, v) : v \in GenericVerbs }
  /\ call = NoHistory(req)
  /\ steps = 0
  /\ sent = <<>>
  /\ got = <<>>
  /\ result = NilResult

\* One setter call on the Request: r is the Request it leaves, h the
\* history when the call took effect.
BuildCall(op, arg, r, h) ==
  /\ pc = "building"
  /\ steps < MaxCalls
  /\ req' = r
  /\ call' = IF req.err = NilError /\ r.err = NilError THEN h ELSE call
  /\ ret' = [op |-> op, arg |-> arg, entry |-> req]
  /\ steps' = steps + 1
  /\ UNCHANGED << cfg, other, input, client, pc, sent, got, result >>

BuildPrefix ==
  \E s \in PrefixSegments :
    BuildCall("Prefix", s, Prefix(req, s), [call EXCEPT !.prefix = @ \o s])

BuildSuffix ==
  \E s \in SuffixSegments :
    BuildCall("Suffix", s, Suffix(req, s), [call EXCEPT !.suffix = @ \o s])

BuildResource ==
  \E x \in BuildResources :
    BuildCall("Resource", x, Resource(req, x), [call EXCEPT !.resource = x])

BuildName ==
  \E n \in BuildNames :
    BuildCall("Name", n, Name(req, n), [call EXCEPT !.name = n])

BuildSubResource ==
  \E s \in BuildSubResources :
    BuildCall("SubResource", s, SubResource(req, s), [call EXCEPT !.subresource = s])

BuildParam ==
  \E kv \in ParamPairs :
    BuildCall("Param", kv, Param(req, kv[1], kv[2]), call)

BuildRequestURI ==
  \E u \in URIs :
    BuildCall("RequestURI", u, RequestURI(req, u.text), [call EXCEPT !.uri = TRUE])

NextBuild ==
  \/ BuildPrefix
  \/ BuildSuffix
  \/ BuildResource
  \/ BuildName
  \/ BuildSubResource
  \/ BuildParam
  \/ BuildRequestURI

SpecBuild == InitBuild /\ [][NextBuild]_vars

\* ------------------------------------------------------------------------
\* Properties
\* ------------------------------------------------------------------------

\* --- Requests ---

\* The credential fields of the Config the clients were made from.
BasicSet == cfg.Username # <<>>
TokenSet == cfg.BearerToken # <<>> \/ cfg.BearerTokenFile # <<>>
KeySet == cfg.SecretID # <<>> /\ cfg.SecretKey # <<>>
MethodsSet ==
  (IF BasicSet THEN 1 ELSE 0) + (IF TokenSet THEN 1 ELSE 0) + (IF KeySet THEN 1 ELSE 0)

\* C1: a Request on which a builder step recorded an error is never sent
\* to the server, and the Result of Do gives that error from Error() and
\* from Into().
ErrorsSurfaceAtDo ==
  (pc \in {"awaiting", "done"} /\ req.err # NilError)
    => /\ sent = <<>>
       /\ pc = "done" => /\ ResultError(result) = req.err
                         /\ ResultInto(result) = req.err

\* The case of C1: Do was called on a Request that carries a builder error.
DoneWithBuilderError ==
  pc = "done" /\ req.err # NilError /\ call.op = "Delete" /\ call.name = <<>>

TypedOps == {"Create", "Get", "Update", "Delete", "List", "DeleteCollection", "Authorize"}
NamedOps == {"Get", "Update", "Delete"}

\* The verb a typed operation is documented to send.
TypedVerb(op) ==
  CASE op \in {"Create", "Authorize"} -> VerbPOST
    [] op \in {"Get", "List"} -> VerbGET
    [] op = "Update" -> VerbPUT
    [] op \in {"Delete", "DeleteCollection"} -> VerbDELETE

\* The path a typed operation is documented to address.
TypedPath(prefix, op, kind, name) ==
  IF op \in NamedOps THEN prefix \o <<Slash>> \o kind \o <<Slash>> \o name
  ELSE prefix \o <<Slash>> \o kind

\* C2: every typed operation (with a valid non-empty name where it takes
\* one) sends its verb to its path under the versioned prefix: POST R for
\* Create, GET R/name for Get, PUT R/name for Update, DELETE R/name for
\* Delete, GET R for List, DELETE R for DeleteCollection, POST authz for
\* Authorize.
TypedOpsVerbAndPath ==
  (/\ call.op \in TypedOps
   /\ pc \in {"awaiting", "done"}
   /\ call.op \in NamedOps => call.name \in ValidNames)
    => /\ sent # <<>>
       /\ \A i \in 1..Len(sent) :
            /\ sent[i].Method = TypedVerb(call.op)
            /\ sent[i].URL.Path =
                 TypedPath(req.c.versionedAPIPath, call.op, call.kind, call.name)

\* The case of C2: a Get of a valid name was sent.
TypedGetSent ==
  call.op = "Get" /\ call.name = Alice /\ pc = "awaiting" /\ Len(sent) = 1

\* The values of the Authorization header of a Request, none when it is
\* not set.
AuthorizationOf(r) ==
  IF "Authorization" \in DOMAIN r.headers THEN r.headers["Authorization"] ELSE <<>>

OnlyOneAuthMethod ==
  (pc # "idle" /\ MethodsSet > 1)
    => /\ req.err = ErrOnlyOneAuth
       /\ "Authorization" \notin DOMAIN req.headers

\* The case of C4: a request of a client with basic and token auth, after
\* further builder calls.
TwoMethodsRequest ==
  pc = "building" /\ steps = MaxSteps /\ BasicSet /\ TokenSet /\ ~KeySet

\* The content type a client sends: its Config's ContentType,
\* "application/json" when that is not set.
ClientContentType == IF cfg.ContentType = <<>> THEN ApplicationJSON ELSE cfg.ContentType

\* C7: every request on which Body was called with a struct or with a
\* pointer to a struct carries a Content-Type header equal to the client's
\* ContentType.
BodySetsContentType ==
  (pc # "idle" /\ req.body.kind \in {"struct", "ptr"})
    => /\ "Content-Type" \in DOMAIN req.headers
       /\ req.headers["Content-Type"] = << ClientContentType >>

\* The case of C7: a typed Create was sent with its body.
CreateSentWithBody ==
  call.op = "Create" /\ pc = "awaiting" /\ sent[1].Body.kind = "ptr"

\* C8: a request is sent again only after a response with status 500, at
\* most MaxRetries times; after any other first response, or with
\* MaxRetries = 0, Do returns after exactly one attempt.
RetryOnlyAfter500 ==
  /\ Len(sent) <= 1 + cfg.MaxRetries
  /\ \A i \in 2..Len(sent) :
       /\ got[i - 1].kind = "response"
       /\ got[i - 1].status = StatusInternalServerError
  /\ pc = "done" =>
       /\ Len(got) = Len(sent)
       /\ (\/ cfg.MaxRetries = 0
           \/ got[1].kind # "response"
           \/ got[1].status # StatusInternalServerError) => Len(sent) = 1

\* The case of C8: Do returned after a retry that followed a 500.
RetriedOnce ==
  pc = "done" /\ Len(sent) = 2 /\ got[1].status = StatusInternalServerError

\* --- Config.String ---

\* a and b differ at most in the values of non-empty Password, BearerToken,
\* SecretKey and KeyData.
DifferOnlyInSecrets(a, b) ==
  /\ [a EXCEPT !.Password = <<>>, !.BearerToken = <<>>, !.SecretKey = <<>>,
               !.KeyData = <<>>]
       = [b EXCEPT !.Password = <<>>, !.BearerToken = <<>>, !.SecretKey = <<>>,
                   !.KeyData = <<>>]
  /\ (a.Password = <<>>) = (b.Password = <<>>)
  /\ (a.BearerToken = <<>>) = (b.BearerToken = <<>>)
  /\ (a.SecretKey = <<>>) = (b.SecretKey = <<>>)
  /\ (a.KeyData = <<>>) = (b.KeyData = <<>>)

\* C5: String and GoString print the same for two Configs that differ only
\* in the values of non-empty Password, BearerToken, SecretKey or KeyData,
\* and leave the Config they are called on unchanged.
StringHidesSecrets ==
  ret.op \in {"String", "GoString"}
    => /\ cfg = ret.entry
       /\ DifferOnlyInSecrets(ret.entry, other) => ret.out.a = ret.out.b

\* The case of C5: String was called on two Configs that differ in all
\* four secrets.
StringOfTwoSecrets ==
  /\ ret.op = "String"
  /\ DifferOnlyInSecrets(ret.entry, other)
  /\ ret.entry.Password # other.Password
  /\ ret.entry.BearerToken # other.BearerToken
  /\ ret.entry.SecretKey # other.SecretKey
  /\ ret.entry.KeyData # other.KeyData

\* --- DefaultServerURL ---

\* The host of the group's default address.
GroupDefaultHost(group, tls) ==
  group \o (IF tls THEN DefaultDomainTLSPort ELSE DefaultDomainPort)

\* C6: for a host given as a host, a host:port pair or a URL the base URL
\* addresses that host (and port); the group's default address is used
\* only when no host is given.
ServerURLAddressesHost ==
  ret.op \in {"DefaultServerURL", "defaultServerURLFor"}
    => IF input.form = "none"
       THEN /\ ret.err = NoErr
            /\ ret.out.url.Host \in { GroupDefaultHost(ret.entry.GroupVersion.Group, tls) :
                                        tls \in BOOLEAN }
       ELSE /\ ret.err = NoErr
            /\ ret.out.url.Host = input.authority

\* The case of C6: DefaultServerURL returned for a host:port pair.
HostPortConverted ==
  ret.op = "DefaultServerURL" /\ input.form = "hostport" /\ ret.err = NoErr

\* --- TLS ---

\* C9: for a Config with a CA (CAFile or CAData) and Insecure set,
\* TLSConfigFor returns an error and RESTClientFor returns an error and no
\* client.
CAWithInsecureRefused ==
  (/\ ret.op \in {"TLSConfigFor", "RESTClientFor"}
   /\ (ret.entry.CAFile # <<>> \/ ret.entry.CAData # <<>>)
   /\ ret.entry.Insecure)
    => /\ ret.err # NoErr
       /\ ret.op = "TLSConfigFor" => ~ret.out.tls.set
       /\ ret.op = "RESTClientFor" => ~ret.out.client.set

\* The case of C9: RESTClientFor got as far as TLSConfigFor with a CA file
\* and Insecure.
CAWithInsecureTried ==
  /\ ret.op = "RESTClientFor"
  /\ ret.entry.CAFile # <<>> /\ ret.entry.CAData = <<>> /\ ret.entry.Insecure
  /\ ret.entry.GroupVersion.set /\ ret.entry.Negotiator # "nil"
  /\ ret.err = "specifying a root certificates file with the insecure flag is not allowed"

\* C10: after LoadTLSFiles returns without error each of CAData, CertData
\* and KeyData is populated if its data field or its file field was set on
\* entry and is empty otherwise, and a file whose data field was set is not
\* read.
TLSDataPopulated ==
  (ret.op = "LoadTLSFiles" /\ ret.err = NoErr)
    => /\ (cfg.CAData # <<>>) = (ret.entry.CAData # <<>> \/ ret.entry.CAFile # <<>>)
       /\ (cfg.CertData # <<>>) = (ret.entry.CertData # <<>> \/ ret.entry.CertFile # <<>>)
       /\ (cfg.KeyData # <<>>) = (ret.entry.KeyData # <<>> \/ ret.entry.KeyFile # <<>>)
       /\ ret.entry.CAData # <<>> => ~ret.out.read.CA
       /\ ret.entry.CertData # <<>> => ~ret.out.read.Cert
       /\ ret.entry.KeyData # <<>> => ~ret.out.read.Key

\* The case of C10: LoadTLSFiles returned without error for a Config with
\* a CA file and no CA data.
CAFileLoaded ==
  /\ ret.op = "LoadTLSFiles" /\ ret.err = NoErr
  /\ ret.entry.CAFile # <<>> /\ ret.entry.CAData = <<>>

\* The authentication methods an AuthInfo populates.
PopulatedMethods(a) ==
  (IF a.Token # <<>> THEN {"token"} ELSE {})
  \cup (IF a.Username # <<>> \/ a.Password # <<>> THEN {"basic"} ELSE {})
  \cup (IF a.SecretID # <<>> \/ a.SecretKey # <<>> THEN {"secret"} ELSE {})

\* C11: ConfirmUsable and ClientConfig reject every AuthInfo that populates
\* more than one of the methods token, basic auth and secret auth, with an
\* error for which IsConfigurationInvalid is true; ClientConfig then
\* returns no Config.
MultipleMethodsRejected ==
  (/\ ret.op \in {"ConfirmUsable", "ClientConfig"}
   /\ Cardinality(PopulatedMethods(ret.entry.AuthInfo)) > 1)
  => /\ IsConfigurationInvalid(ret.err)
     /\ (ret.op = "ClientConfig" => ~ret.out.set)

\* A Config with a token and basic auth, loaded from a file that names a
\* server, was refused by ClientConfig.
TokenAndBasicRefused ==
  /\ ret.op = "ClientConfig"
  /\ input.how = "LoadFromFile"
  /\ PopulatedMethods(ret.entry.AuthInfo) = {"token", "basic"}
  /\ ret.entry.Server.Address = AddressIP
  /\ IsConfigurationInvalid(ret.err)

\* No field of the server section is set; the origin the loader records is
\* not a field of the section.
NoServerField(s) == [s EXCEPT !.LocationOfOrigin = <<>>] = ZeroServer

\* An AuthInfo validation has nothing to say about: at most one method and
\* no client certificate or key.
NoAuthProblem(a) ==
  /\ Cardinality(PopulatedMethods(a)) <= 1
  /\ a.ClientCertificate = <<>> /\ a.ClientCertificateData = <<>>
  /\ a.ClientKey = <<>> /\ a.ClientKeyData = <<>>

\* C12: when the only problem of a Config is that no server is defined,
\* ConfirmUsable and ClientConfig return the "no configuration has been
\* provided" error, for which IsEmptyConfig is true, however the Config was
\* obtained; so does BuildConfigFromFlags with an empty serverURL.
NoServerIsEmptyConfig ==
  /\ (/\ ret.op \in {"ConfirmUsable", "ClientConfig"}
      /\ NoServerField(ret.entry.Server)
      /\ NoAuthProblem(ret.entry.AuthInfo))
     => (IsEmptyConfig(ret.err) /\ ret.err.errs = << ErrEmptyConfig >>)
  /\ (/\ ret.op = "BuildConfigFromFlags"
      /\ ret.out.serverURL = <<>>
      /\ ret.out.loaded.err = CmdNil
      /\ NoServerField(ret.out.loaded.config.Server)
      /\ NoAuthProblem(ret.out.loaded.config.AuthInfo))
     => (IsEmptyConfig(ret.err) /\ ret.err.errs = << ErrEmptyConfig >>)

\* ConfirmUsable ran on a Config loaded from a file without a server
\* section.
FileWithoutServerChecked ==
  /\ ret.op = "ConfirmUsable"
  /\ input.how = "LoadFromFile"
  /\ ret.entry.Server.LocationOfOrigin = IamConfigPath
  /\ NoServerField(ret.entry.Server)
  /\ NoAuthProblem(ret.entry.AuthInfo)

\* C12 for the Configs that were not loaded from a file (a comparison, not
\* the claim).
NoServerIsEmptyConfigUnlessFile ==
  input.how # "LoadFromFile" => NoServerIsEmptyConfig

\* A client certificate is given and no client key.
CertWithoutKey(a) ==
  /\ (a.ClientCertificate # <<>> \/ a.ClientCertificateData # <<>>)
  /\ a.ClientKey = <<>> /\ a.ClientKeyData = <<>>

\* C13: validateAuthInfo, and so ConfirmUsable and ClientConfig, report an
\* error for every AuthInfo that gives a client certificate (file or data)
\* and no client key (neither file nor data).
KeyRequiredForCert ==
  (/\ ret.op \in {"ConfirmUsable", "ClientConfig"}
   /\ CertWithoutKey(ret.entry.AuthInfo))
  => /\ validateAuthInfo(ret.entry.AuthInfo) # <<>>
     /\ ret.err # CmdNil

\* ConfirmUsable ran on a Config with a readable client certificate file,
\* no key and a server address.
CertWithoutKeyChecked ==
  /\ ret.op = "ConfirmUsable"
  /\ ret.entry.AuthInfo.ClientCertificate = CertPath
  /\ CertWithoutKey(ret.entry.AuthInfo)
  /\ ret.entry.Server.Address = AddressIP

\* C13 for the AuthInfos that give both the certificate file and the
\* certificate data (a comparison, not the claim).
KeyRequiredForCertFileAndData ==
  (ret.op \in {"ConfirmUsable", "ClientConfig"}
   => (ret.entry.AuthInfo.ClientCertificate # <<>>
       /\ ret.entry.AuthInfo.ClientCertificateData # <<>>))
  => KeyRequiredForCert

\* BuildConfigFromFlags: a non-empty serverURL (here a URL without a path)
\* is the Host of the Config built from a file that loads and validates.
FlagsReplaceAddress ==
  (/\ ret.op = "BuildConfigFromFlags"
   /\ ret.out.serverURL # <<>>
   /\ ret.out.loaded.err = CmdNil
   /\ ret.err = CmdNil)
  => (ret.out.set /\ ret.out.config.Host = ret.out.serverURL)

\* C14: BuildConfigFromFlags builds a Config from a server URL or an
\* iamconfig path: a non-empty serverURL replaces the server address read
\* from the file, and with neither serverURL nor iamconfigPath it falls back
\* to a default Config instead of returning an error.
FlagsBuildConfig ==
  /\ FlagsReplaceAddress
  /\ (/\ ret.op = "BuildConfigFromFlags"
      /\ ret.out.serverURL = <<>>
      /\ ret.out.iamconfigPath = <<>>)
     => (ret.err = CmdNil /\ ret.out.set)

\* BuildConfigFromFlags was called with neither flag.
NeitherFlagPassed ==
  /\ ret.op = "BuildConfigFromFlags"
  /\ ret.out.serverURL = <<>>
  /\ ret.out.iamconfigPath = <<>>

\* BuildConfigFromFlags replaced the address of a file by the serverURL.
FlagReplacedFileAddress ==
  /\ ret.op = "BuildConfigFromFlags"
  /\ ret.out.serverURL = FlagServerURL
  /\ ret.out.loaded.err = CmdNil
  /\ ret.out.loaded.config.Server.Address = AddressProxy
  /\ ret.err = CmdNil
  /\ ret.out.config.Host = FlagServerURL

\* RequestURI leaves the path of the uri as the path prefix, and an error
\* when the uri does not parse.
RequestURISetsPath ==
  (ret.op = "RequestURI" /\ ret.entry.err = NilError)
  => IF ret.arg.ok
     THEN req.err = NilError /\ req.pathPrefix = ret.arg.path
     ELSE req.err # NilError

\* C15: after RequestURI(uri) on an error-free request the path prefix is
\* the path of uri and the query parameters are exactly the parameters of
\* uri, whatever Param calls preceded it; a uri that does not parse records
\* an error.
RequestURIOverwrites ==
  /\ RequestURISetsPath
  /\ (ret.op = "RequestURI" /\ ret.entry.err = NilError /\ ret.arg.ok)
     => (req.params = ValuesOf(ret.arg.pairs)
         /\ URL(req).Query = ValuesOf(ret.arg.pairs))

\* RequestURI was called on an error-free request that held a parameter.
ParamThenRequestURI ==
  /\ ret.op = "RequestURI"
  /\ ret.entry.err = NilError
  /\ ret.entry.params # NoValues
  /\ ret.arg.ok

\* C15 for the requests that held no parameter, or only parameters the uri
\* names too (a comparison, not the claim).
RequestURIOverwritesNamed ==
  (ret.op = "RequestURI" => DOMAIN ret.entry.params \subseteq DOMAIN ValuesOf(ret.arg.pairs))
  => RequestURIOverwrites

\* C16: for an error-free request, URL().Path is the join of the path
\* prefix, the lower-cased resource, the resource name, the subresource and
\* the suffix, in that order, in whatever order Prefix, Resource, Name,
\* SubResource and Suffix were called.
PathLayout ==
  (pc = "building" /\ call.op = "build" /\ req.err = NilError /\ ~call.uri)
  => URL(req).Path =
       PathJoin(call.prefix \o << ToLower(call.resource), call.name >>
                \o call.subresource \o call.suffix)

\* All five setters were called, the suffix first and the prefix last.
AllSettersPrefixLast ==
  /\ req.err = NilError
  /\ ~call.uri
  /\ ret.op = "Prefix"
  /\ Len(call.prefix) > 1
  /\ call.resource = UsersTitle
  /\ call.name = Alice
  /\ call.subresource # <<>>
  /\ call.suffix # <<>>
  /\ req.pathPrefix # ret.entry.pathPrefix
  /\ ret.entry.subpath # <<>>

====
